---- MODULE Spec2Model ----
(***************************************************************************)
(* The suspend/resume execution engine of the EVM loader: the continuation *)
(* record (account/state.rs), the action log with its call-depth stack     *)
(* (executor/state.rs) and the step driver (instruction/                   *)
(* transaction_step.rs).                                                   *)
(*                                                                         *)
(* Four specifications share the variables:                                *)
(*   SpecGas  the gas meter of one continuation record, method by method   *)
(*   SpecLog  the action log: record / snapshot / commit / revert          *)
(*   SpecRev  the revision ledger: create / touch / mutate / restore       *)
(*   Spec     the step driver: begin / continue over one storage account   *)
(***************************************************************************)
EXTENDS Integers, Sequences, FiniteSets, TLC

VARIABLES
    \* ---- the continuation record (struct Data and Header, account/state.rs)
    tag,                    \* tag byte of the storage account
    trx,                    \* Data.transaction
    gas_used,               \* Data.gas_used
    steps_executed,         \* Data.steps_executed
    revisions,              \* Data.revisions
    touched_accounts,       \* Data.touched_accounts (0: no entry)
    executor_state_offset,  \* Header.executor_state_offset
    evm_offset,             \* Header.evm_offset
    \* ---- the executor state blob (struct ExecutorStateData)
    actions,                \* ExecutorStateData.actions
    stack,                  \* ExecutorStateData.stack
    exit_status,            \* ExecutorStateData.exit_status
    cache,                  \* ExecutorStateData.cache
    touched,                \* ExecutorStateData.touched_accounts (0: no entry)
    \* ---- the interpreter blob
    evm_pc,                 \* virtual steps the interpreter instance has run
    \* ---- durable state outside the record
    accounts,               \* the accounts in scope of the transaction
    operator_balance,       \* tokens of the operator balance, per chain id
    origin_balance,         \* tokens of the origin's balance account
    origin_nonce,           \* nonce of the origin's balance account
    applied,                \* how often apply_state_change has run
    \* ---- the last call and its outcome
    op,                     \* the operation called last
    err,                    \* its result: "Ok", an Error variant, or "panic"
    arg,                    \* its numeric argument
    hist                    \* bookkeeping of the calls made so far

vars == <<tag, trx, gas_used, steps_executed, revisions, touched_accounts,
          executor_state_offset, evm_offset, actions, stack, exit_status,
          cache, touched, evm_pc, accounts, operator_balance, origin_balance,
          origin_nonce, applied, op, err, arg, hist>>

recordVars == <<tag, trx, gas_used, steps_executed, revisions,
                touched_accounts, executor_state_offset, evm_offset>>
blobVars == <<actions, stack, exit_status, cache, touched, evm_pc>>
durableVars == <<accounts, operator_balance, origin_balance, origin_nonce,
                 applied>>

-----------------------------------------------------------------------------
(* Bounds of the model. *)

\* U256::MAX, scaled down so that saturation and overflow are reachable.
MaxU256 == 7
\* The largest gas limit a transaction declares.
MaxGasLimit == 4
\* The largest gas price a transaction declares.
MaxGasPrice == 2
\* The largest gas amount one call charges.
MaxAmount == 3

Min(a, b) == IF a < b THEN a ELSE b

-----------------------------------------------------------------------------
(* Tags of a storage account (account/mod.rs, used in account/state.rs). *)

TAG_HOLDER == "TAG_HOLDER"
TAG_STATE == "TAG_STATE"
TAG_STATE_FINALIZED == "TAG_STATE_FINALIZED"

\* The panics of the code: a failed expect and a failed assert!.
PanicCallStack == "panic: Fatal Error: Inconsistent EVM Call Stack"
PanicAssert == "panic: assertion failed"

\* Chain ids: config::DEFAULT_CHAIN_ID and one other.
DEFAULT_CHAIN_ID == "default"
ChainIds == {DEFAULT_CHAIN_ID, "other"}

\* Transaction::chain_id() is an Option: "None" for a legacy transaction.
trx_chain_id(t) == IF t.chain_id = "None" THEN DEFAULT_CHAIN_ID ELSE t.chain_id

-----------------------------------------------------------------------------
(* U256 arithmetic as the code uses it. *)

saturating_add(a, b) == Min(a + b, MaxU256)
saturating_sub(a, b) == IF a < b THEN 0 ELSE a - b

\* StateAccount::gas_available
gas_available(t, used) == saturating_sub(t.gas_limit, used)

\* StateAccount::use_gas with a slip: the limit is not enforced.
use_gas_unchecked(t, used, amount) ==
    IF amount = 0 THEN [err |-> "Ok", gas_used |-> used, tokens |-> 0]
    ELSE LET total_gas_used == saturating_add(used, amount) IN
         IF amount * t.gas_price > MaxU256
         THEN [err |-> "IntegerOverflow", gas_used |-> total_gas_used, tokens |-> 0]
         ELSE [err |-> "Ok", gas_used |-> total_gas_used,
               tokens |-> amount * t.gas_price]

\* StateAccount::use_gas: the record's gas_used after the call, the error and
\* the token cost returned.
use_gas(t, used, amount) ==
    IF amount = 0 THEN [err |-> "Ok", gas_used |-> used, tokens |-> 0]
    ELSE LET total_gas_used == saturating_add(used, amount) IN
         IF total_gas_used > t.gas_limit
         THEN [err |-> "OutOfGas", gas_used |-> used, tokens |-> 0]
         ELSE IF amount * t.gas_price > MaxU256
         THEN [err |-> "IntegerOverflow", gas_used |-> total_gas_used, tokens |-> 0]
         ELSE [err |-> "Ok", gas_used |-> total_gas_used,
               tokens |-> amount * t.gas_price]

\* OperatorBalanceAccount::mint / BalanceAccount::mint: checked addition.
mint(balance, tokens) ==
    IF balance + tokens > MaxU256
    THEN [err |-> "IntegerOverflow", balance |-> balance]
    ELSE [err |-> "Ok", balance |-> balance + tokens]

\* The receivers a caller can pass to consume_gas: none, or the operator
\* balance account of some chain id.
Receivers == {"None"} \cup ChainIds

\* StateAccount::consume_gas with a slip: the receiver is not validated, the
\* tokens are minted to the balance of the transaction's chain whatever
\* account (or none) was supplied.
consume_gas_unvalidated(t, used, amount, receiver, balances) ==
    LET u == use_gas(t, used, amount) IN
    IF u.err # "Ok"
    THEN [err |-> u.err, gas_used |-> u.gas_used, balances |-> balances]
    ELSE IF u.tokens = 0
    THEN [err |-> "Ok", gas_used |-> u.gas_used, balances |-> balances]
    ELSE LET m == mint(balances[trx_chain_id(t)], u.tokens) IN
         [err |-> m.err, gas_used |-> u.gas_used,
          balances |-> [balances EXCEPT ![trx_chain_id(t)] = m.balance]]

\* StateAccount::consume_gas with a slip: the gas is used and its tokens
\* are minted to nobody.
consume_gas_unminted(t, used, amount, receiver, balances) ==
    LET u == use_gas(t, used, amount) IN
    IF u.err # "Ok"
    THEN [err |-> u.err, gas_used |-> u.gas_used, balances |-> balances]
    ELSE IF u.tokens = 0
    THEN [err |-> "Ok", gas_used |-> u.gas_used, balances |-> balances]
    ELSE IF receiver = "None"
    THEN [err |-> "OperatorBalanceMissing", gas_used |-> u.gas_used,
          balances |-> balances]
    ELSE IF receiver # trx_chain_id(t)
    THEN [err |-> "OperatorBalanceInvalidChainId", gas_used |-> u.gas_used,
          balances |-> balances]
    ELSE [err |-> "Ok", gas_used |-> u.gas_used, balances |-> balances]

\* StateAccount::consume_gas: the record's gas_used, the error and the
\* operator balances after the call.
consume_gas(t, used, amount, receiver, balances) ==
    LET u == use_gas(t, used, amount) IN
    IF u.err # "Ok"
    THEN [err |-> u.err, gas_used |-> u.gas_used, balances |-> balances]
    ELSE IF u.tokens = 0
    THEN [err |-> "Ok", gas_used |-> u.gas_used, balances |-> balances]
    ELSE IF receiver = "None"
    THEN [err |-> "OperatorBalanceMissing", gas_used |-> u.gas_used,
          balances |-> balances]
    ELSE IF receiver # trx_chain_id(t)
    THEN [err |-> "OperatorBalanceInvalidChainId", gas_used |-> u.gas_used,
          balances |-> balances]
    ELSE LET m == mint(balances[receiver], u.tokens) IN
         [err |-> m.err, gas_used |-> u.gas_used,
          balances |-> [balances EXCEPT ![receiver] = m.balance]]

\* The origin of the transaction (Data.origin), and the balance accounts a
\* caller can pass for it: of either chain, of the origin or of another
\* address.
trx_origin == "origin"
Origins == [chain_id : ChainIds, address : {trx_origin, "stranger"}]

\* StateAccount::refund_unused_gas with a slip: the unused gas is minted as
\* it is, not converted to tokens.
refund_unused_gas_flat(t, used, balance, origin) ==
    IF origin.chain_id # trx_chain_id(t) \/ origin.address # trx_origin
    THEN [err |-> PanicAssert, gas_used |-> used, balance |-> balance]
    ELSE
    LET unused_gas == gas_available(t, used)
        u == use_gas(t, used, unused_gas)
    IN  IF u.err # "Ok"
        THEN [err |-> u.err, gas_used |-> u.gas_used, balance |-> balance]
        ELSE LET m == mint(balance, unused_gas) IN
             [err |-> m.err, gas_used |-> u.gas_used, balance |-> m.balance]

\* StateAccount::refund_unused_gas on the balance account origin passed as
\* the origin's: the two assertions, then the unused gas is used up and its
\* tokens are minted to the account.
refund_unused_gas(t, used, balance, origin) ==
    IF origin.chain_id # trx_chain_id(t) \/ origin.address # trx_origin
    THEN [err |-> PanicAssert, gas_used |-> used, balance |-> balance]
    ELSE
    LET unused_gas == gas_available(t, used)
        u == use_gas(t, used, unused_gas)
    IN  IF u.err # "Ok"
        THEN [err |-> u.err, gas_used |-> u.gas_used, balance |-> balance]
        ELSE LET m == mint(balance, u.tokens) IN
             [err |-> m.err, gas_used |-> u.gas_used, balance |-> m.balance]

-----------------------------------------------------------------------------
(* SpecGas: the gas meter of one record, called method by method.  A call  *)
(* that returns an error leaves what it had already written, as the method *)
(* does; the driver (Spec) is where an error aborts the host transaction.  *)

Transactions ==
    [gas_limit : 1..MaxGasLimit, gas_price : 0..MaxGasPrice,
     chain_id : {"None", "other"}, nonce : {0}]

NoCache == [block_number |-> 0, block_timestamp |-> 0, actions_offset |-> 0,
            accounts |-> {}]

\* The parts of the state a specification does not use stay as they are here.
RecordIdle ==
    /\ steps_executed = 0
    /\ revisions = <<>>
    /\ touched_accounts = <<>>
    /\ executor_state_offset = 0
    /\ evm_offset = 0
BlobIdle ==
    /\ actions = <<>>
    /\ stack = <<>>
    /\ exit_status = "None"
    /\ cache = NoCache
    /\ touched = <<>>
    /\ evm_pc = 0
DurableIdle ==
    /\ accounts = <<>>
    /\ operator_balance = [c \in ChainIds |-> 0]
    /\ origin_balance = 0
    /\ origin_nonce = 0
    /\ applied = 0
CallIdle ==
    /\ op = "init"
    /\ err = "Ok"
    /\ arg = 0

InitGas ==
    /\ tag = TAG_STATE
    /\ trx \in Transactions
    /\ gas_used = 0
    /\ RecordIdle
    /\ BlobIdle
    /\ DurableIdle
    /\ CallIdle
    /\ hist = <<>>

ConsumeGas ==
    \E amount \in 0..MaxAmount, receiver \in Receivers :
        LET r == consume_gas(trx, gas_used, amount, receiver, operator_balance) IN
        /\ gas_used' = r.gas_used
        /\ operator_balance' = r.balances
        /\ op' = "consume_gas"
        /\ err' = r.err
        /\ arg' = amount
        /\ UNCHANGED <<tag, trx, steps_executed, revisions, touched_accounts,
                       executor_state_offset, evm_offset, blobVars, accounts,
                       origin_balance, origin_nonce, applied, hist>>

RefundUnusedGas ==
    \E origin \in Origins :
    LET r == refund_unused_gas(trx, gas_used, origin_balance, origin) IN
    /\ gas_used' = r.gas_used
    /\ origin_balance' = r.balance
    /\ op' = "refund_unused_gas"
    /\ err' = r.err
    /\ arg' = gas_available(trx, gas_used)
    /\ UNCHANGED <<tag, trx, steps_executed, revisions, touched_accounts,
                   executor_state_offset, evm_offset, blobVars, accounts,
                   operator_balance, origin_nonce, applied, hist>>

NextGas == ConsumeGas \/ RefundUnusedGas

SpecGas == InitGas /\ [][NextGas]_vars

-----------------------------------------------------------------------------
(* C1: the cumulative gas_used never exceeds the transaction's gas_limit,  *)
(* and a consume_gas call whose amount would push the total above the      *)
(* limit fails with OutOfGas, mints nothing to any operator balance and    *)
(* leaves gas_used at its previous value.                                  *)
C1_GasNeverExceedsLimit ==
    /\ [](gas_used <= trx.gas_limit)
    /\ [][(op' = "consume_gas" /\ gas_used + arg' > trx.gas_limit)
            => /\ err' = "OutOfGas"
               /\ gas_used' = gas_used
               /\ operator_balance' = operator_balance]_vars

\* A call that crossed the limit was made after gas had been charged.
C1_Witness ==
    /\ op = "consume_gas"
    /\ err = "OutOfGas"
    /\ gas_used > 0
    /\ gas_used + arg > trx.gas_limit
    /\ \E c \in ChainIds : operator_balance[c] > 0

-----------------------------------------------------------------------------
(* The action log: ExecutorStateData and the Database implementation of    *)
(* ExecutorState (executor/state.rs).                                      *)

\* The accounts of the model, by public key.
Keys == {1, 2}
\* The accounts external instructions name, and the storage slots written.
ExternalKeys == {1}
Slots == {1}
\* The longest action list.
MaxActions == 3
\* The deepest call-depth stack.
MaxDepth == 2
\* The 32-byte values written to a storage slot.
Values == {1}
\* The largest touched-account weight (u64::MAX, scaled down).
MaxWeight == 4

\* Action::EvmSetStorage { address, index, value }
EvmSetStorage(index, value) ==
    [kind |-> "EvmSetStorage", key |-> index, value |-> value, writable |-> FALSE]

\* Action::ExternalInstruction { accounts, emulated_internally, .. } with one
\* account meta (pubkey, is_writable).
ExternalInstruction(pubkey, is_writable, emulated_internally) ==
    [kind |-> "ExternalInstruction", key |-> pubkey, value |-> 0,
     writable |-> is_writable, emulated_internally |-> emulated_internally]

Front(s) == SubSeq(s, 1, Len(s) - 1)
Last(s) == s[Len(s)]
\* Vector::truncate: a length not below the current one changes nothing.
truncate(s, len) == IF len >= Len(s) THEN s ELSE SubSeq(s, 1, len)

NoTouched == [k \in Keys |-> 0]


\* ExecutorState::touch_account: the per-step weight of pubkey grows by count.
touch_account(t, pubkey, count) == [t EXCEPT ![pubkey] = @ + count]

RECURSIVE touch_all(_, _)
\* touch_solana for every meta of a list, in turn.
touch_all(t, metas) ==
    IF metas = <<>> THEN t
    ELSE touch_all(touch_account(t, metas[1].key, 2), SubSeq(metas, 2, Len(metas)))

\* Database::snapshot with a slip: the length pushed is one too many.
snapshot_next(acts, stk) == Append(stk, Len(acts) + 1)

\* Database::snapshot
snapshot(acts, stk) == Append(stk, Len(acts))

\* Database::commit_snapshot with a slip: an empty stack is tolerated.
commit_snapshot_lenient(stk) ==
    IF stk = <<>> THEN [err |-> "Ok", stack |-> stk]
    ELSE [err |-> "Ok", stack |-> Front(stk)]

\* Database::commit_snapshot: pop().expect(..) panics on an empty stack.
commit_snapshot(stk) ==
    IF stk = <<>>
    THEN [err |-> PanicCallStack, stack |-> stk]
    ELSE [err |-> "Ok", stack |-> Front(stk)]

\* Database::revert_snapshot with a slip: the action list is not truncated.
revert_snapshot_keep(acts, stk, c) ==
    IF stk = <<>>
    THEN [err |-> PanicCallStack,
          actions |-> acts, stack |-> stk, cache |-> c]
    ELSE [err |-> "Ok", actions |-> acts, stack |-> Front(stk),
          cache |-> [c EXCEPT !.accounts = {}, !.actions_offset = 0]]

\* Database::revert_snapshot with a slip: the cache is left as it is.
revert_snapshot_stale(acts, stk, c) ==
    IF stk = <<>>
    THEN [err |-> PanicCallStack,
          actions |-> acts, stack |-> stk, cache |-> c]
    ELSE LET truncated == truncate(acts, Last(stk)) IN
         [err |-> IF Front(stk) = <<>> /\ truncated # <<>>
                  THEN PanicAssert ELSE "Ok",
          actions |-> truncated, stack |-> Front(stk), cache |-> c]

\* Database::revert_snapshot with a slip: the cached views are dropped and
\* the offset of the processed actions is kept.
revert_snapshot_offset(acts, stk, c) ==
    IF stk = <<>>
    THEN [err |-> PanicCallStack,
          actions |-> acts, stack |-> stk, cache |-> c]
    ELSE LET truncated == truncate(acts, Last(stk)) IN
         [err |-> IF Front(stk) = <<>> /\ truncated # <<>>
                  THEN PanicAssert ELSE "Ok",
          actions |-> truncated, stack |-> Front(stk),
          cache |-> [c EXCEPT !.accounts = {}]]

\* Database::revert_snapshot: pop (panic on an empty stack), truncate, clear
\* the cache, and the sanity check that an empty stack means an empty list.
revert_snapshot(acts, stk, c) ==
    IF stk = <<>>
    THEN [err |-> PanicCallStack,
          actions |-> acts, stack |-> stk, cache |-> c]
    ELSE LET truncated == truncate(acts, Last(stk)) IN
         [err |-> IF Front(stk) = <<>> /\ truncated # <<>>
                  THEN PanicAssert ELSE "Ok",
          actions |-> truncated, stack |-> Front(stk),
          cache |-> [c EXCEPT !.accounts = {}, !.actions_offset = 0]]

\* The account metas of the external instructions not yet processed:
\* actions.iter().skip(cache.actions_offset).filter_map(..).flatten()
unprocessed_metas(acts, c) ==
    SelectSeq(SubSeq(acts, c.actions_offset + 1, Len(acts)),
              LAMBDA a : a.kind = "ExternalInstruction")

\* Database::external_account(address).  emulated: whether every external
\* program emulation succeeds; is_writable: the accounts whose fetched view
\* is writable.
external_account(acts, c, t, address, emulated, is_writable) ==
    LET t1 == touch_account(t, address, 2)
        metas == unprocessed_metas(acts, c)
    IN  IF ~\E i \in 1..Len(metas) : metas[i].key = address /\ metas[i].writable
        THEN [err |-> "Ok", cache |-> c, touched |-> t1]
        ELSE IF ~emulated
        THEN [err |-> "Custom", cache |-> c, touched |-> touch_all(t1, metas)]
        ELSE [err |-> "Ok",
              cache |-> [c EXCEPT
                  !.actions_offset = Len(acts),
                  !.accounts = @ \cup ({metas[i].key : i \in 1..Len(metas)}
                                        \cap is_writable)],
              touched |-> touch_all(t1, metas)]

-----------------------------------------------------------------------------
(* SpecLog: the action log of one executor state, called method by method  *)
(* as the interpreter does.  A panic ends the run.                         *)

NoHist == <<>>

\* hist in SpecLog:
\*   saved    the action list as it was at each open snapshot
\*   started  a snapshot has been taken
\*   before   the action list before the first snapshot
\*   commit   some snapshot was matched by a commit
\*   outside  an action was recorded on an empty stack after the first snapshot
\*   inside   an action was recorded under an open snapshot
\*   balance  snapshots taken less the commits and reverts that returned
\*   dropped  the actions the latest revert removed
\*   evicted  the latest revert emptied a cache that held an account view
LogHist0 == [saved |-> <<>>, started |-> FALSE, before |-> <<>>,
             commit |-> FALSE, outside |-> FALSE, inside |-> FALSE,
             balance |-> 0, dropped |-> 0, evicted |-> FALSE]

\* The last call panicked: the host transaction is aborted.
Panicked == err \in {PanicCallStack, PanicAssert}


InitLog ==
    /\ tag = TAG_STATE
    /\ trx = [gas_limit |-> 1, gas_price |-> 0, chain_id |-> "None", nonce |-> 0]
    /\ gas_used = 0
    /\ RecordIdle
    /\ actions = <<>>
    /\ stack = <<>>
    /\ exit_status = "None"
    /\ cache = NoCache
    /\ touched = NoTouched
    /\ evm_pc = 0
    /\ DurableIdle
    /\ CallIdle
    /\ hist = LogHist0

\* One action is appended by its recording method.
Recorded(action) ==
    /\ actions' = Append(actions, action)
    /\ err' = "Ok"
    /\ hist' = [hist EXCEPT !.outside = @ \/ (hist.started /\ stack = <<>>),
                             !.inside = @ \/ stack # <<>>]
    /\ UNCHANGED <<recordVars, stack, exit_status, cache, touched, evm_pc,
                   durableVars, arg>>

\* Database::set_storage
SetStorage ==
    /\ ~Panicked
    /\ Len(actions) < MaxActions
    /\ \E index \in Slots, value \in Values :
        /\ op' = "set_storage"
        /\ Recorded(EvmSetStorage(index, value))

\* Database::queue_external_instruction with a slip: the test of the flag is
\* inverted.
queue_external_instruction_inverted(acts, pubkey, is_writable, emulated_internally) ==
    IF emulated_internally
    THEN [err |-> "UnavalableExternalSolanaCall", actions |-> acts]
    ELSE [err |-> "Ok",
          actions |-> Append(acts, ExternalInstruction(pubkey, is_writable,
                                                       emulated_internally))]

\* Database::queue_external_instruction in the on-chain build
\* (target_os = "solana"): an instruction that is not emulated internally
\* is refused.
queue_external_instruction(acts, pubkey, is_writable, emulated_internally) ==
    IF ~emulated_internally
    THEN [err |-> "UnavalableExternalSolanaCall", actions |-> acts]
    ELSE [err |-> "Ok",
          actions |-> Append(acts, ExternalInstruction(pubkey, is_writable,
                                                       emulated_internally))]

\* Database::queue_external_instruction
QueueExternalInstruction ==
    /\ ~Panicked
    /\ Len(actions) < MaxActions
    /\ op' = "queue_external_instruction"
    /\ \E pubkey \in ExternalKeys, is_writable \in BOOLEAN,
          emulated_internally \in BOOLEAN :
        \E r \in {queue_external_instruction(actions, pubkey, is_writable,
                                             emulated_internally)} :
            IF r.err # "Ok"
            THEN /\ err' = r.err
                 /\ UNCHANGED <<recordVars, blobVars, durableVars, arg, hist>>
            ELSE Recorded(Last(r.actions))

Snapshot ==
    /\ ~Panicked
    /\ Len(stack) < MaxDepth
    /\ stack' = snapshot(actions, stack)
    /\ op' = "snapshot"
    /\ err' = "Ok"
    /\ hist' = [hist EXCEPT
            !.saved = Append(@, actions),
            !.started = TRUE,
            !.before = IF hist.started THEN @ ELSE actions,
            !.balance = @ + 1]
    /\ UNCHANGED <<recordVars, actions, exit_status, cache, touched, evm_pc,
                   durableVars, arg>>

CommitSnapshot ==
    /\ ~Panicked
    /\ LET r == commit_snapshot(stack) IN
        /\ stack' = r.stack
        /\ op' = "commit_snapshot"
        /\ err' = r.err
        /\ hist' = IF r.err = "Ok"
                   THEN [hist EXCEPT !.saved = Front(@), !.commit = TRUE,
                                     !.balance = @ - 1]
                   ELSE hist
    /\ UNCHANGED <<recordVars, actions, exit_status, cache, touched, evm_pc,
                   durableVars, arg>>

RevertSnapshot ==
    /\ ~Panicked
    /\ LET r == revert_snapshot(actions, stack, cache) IN
        /\ actions' = r.actions
        /\ stack' = r.stack
        /\ cache' = r.cache
        /\ op' = "revert_snapshot"
        /\ err' = r.err
        /\ hist' = IF r.err = "Ok"
                   THEN [hist EXCEPT !.saved = Front(@), !.balance = @ - 1,
                            !.dropped = Len(actions) - Len(r.actions),
                            !.evicted = cache.accounts # {}]
                   ELSE hist
    /\ UNCHANGED <<recordVars, exit_status, touched, evm_pc, durableVars, arg>>

ExternalAccount ==
    /\ ~Panicked
    /\ \E address \in ExternalKeys, emulated \in BOOLEAN,
          is_writable \in SUBSET ExternalKeys :
        LET r == external_account(actions, cache, touched, address, emulated,
                                  is_writable) IN
        /\ \A k \in Keys : r.touched[k] <= MaxWeight
        /\ cache' = r.cache
        /\ touched' = r.touched
        /\ op' = "external_account"
        /\ err' = r.err
    /\ UNCHANGED <<recordVars, actions, stack, exit_status, evm_pc,
                   durableVars, arg, hist>>

NextLog ==
    \/ SetStorage
    \/ QueueExternalInstruction
    \/ Snapshot
    \/ CommitSnapshot
    \/ RevertSnapshot
    \/ ExternalAccount

SpecLog == InitLog /\ [][NextLog]_vars


-----------------------------------------------------------------------------
(* C6 as stated: once the stack is empty again, the length of the action   *)
(* list equals its length before the first snapshot if and only if every   *)
(* snapshot was matched by a revert.                                       *)
C6_Original ==
    (hist.started /\ ~Panicked /\ stack = <<>>)
        => ((Len(actions) = Len(hist.before)) <=> ~hist.commit)

(* C6, amended: if every snapshot was matched by a revert and no action    *)
(* was recorded on an empty stack after the first snapshot, the action     *)
(* list is the one before the first snapshot (revert restores it); and a   *)
(* commit leaves the action list as it is (it preserves the growth).  The  *)
(* converse does not hold: a commit under which nothing was recorded, or a *)
(* commit nested in a reverted snapshot, leaves the length unchanged too.  *)
C6_RevertRoundTrip ==
    /\ []((hist.started /\ ~Panicked /\ stack = <<>> /\ ~hist.commit
            /\ ~hist.outside) => actions = hist.before)
    /\ [][op' = "commit_snapshot" => actions' = actions]_vars

\* Actions were recorded under snapshots, and every snapshot was reverted.
C6_Witness ==
    /\ op = "revert_snapshot" /\ err = "Ok"
    /\ hist.inside /\ hist.dropped > 0
    /\ stack = <<>> /\ ~hist.commit /\ ~hist.outside

(* C7: a revert that returns pops the most recent snapshot and truncates   *)
(* the action list to exactly the length that snapshot saved: the actions  *)
(* recorded before the snapshot are kept, in order and unchanged, those    *)
(* recorded after it are removed, and the cache of account views is        *)
(* emptied with its processed-actions offset reset to 0.                   *)
C7_RevertTruncates ==
    [][(op' = "revert_snapshot" /\ err' = "Ok") =>
        /\ stack # <<>>
        /\ stack' = Front(stack)
        /\ Len(actions') = Last(stack)
        /\ actions' = Last(hist.saved)
        /\ \A i \in 1..Len(actions') : actions'[i] = actions[i]
        /\ cache'.accounts = {}
        /\ cache'.actions_offset = 0]_vars

\* A revert removed actions, kept others and emptied a cache that held a view.
C7_Witness ==
    /\ op = "revert_snapshot" /\ err = "Ok"
    /\ hist.dropped > 0 /\ hist.evicted
    /\ actions # <<>>

(* C8: a revert or commit on an empty call-depth stack panics with         *)
(* 'Inconsistent EVM Call Stack' and changes nothing; no call follows a    *)
(* panic; and in every run that has not panicked the commits and reverts   *)
(* never outnumber the snapshots (the difference is the stack's depth).    *)
C8_EmptyStackIsFatal ==
    /\ [](~Panicked => (hist.balance >= 0 /\ hist.balance = Len(stack)))
    /\ [][(stack = <<>> /\ op' \in {"revert_snapshot", "commit_snapshot"}) =>
            /\ err' = PanicCallStack
            /\ actions' = actions /\ stack' = stack /\ cache' = cache]_vars
    /\ [][~Panicked]_vars

\* A commit was called after the snapshots taken had all been closed.
C8_Witness ==
    /\ op = "commit_snapshot" /\ err = PanicCallStack
    /\ hist.started /\ hist.balance = 0


-----------------------------------------------------------------------------
(* The revision ledger: AccountRevision and StateAccount::new / restore    *)
(* (account/state.rs).                                                     *)

\* The largest revision counter of an account the program versions.
MaxRevision == 1
\* The largest accumulated weight the ledger is exercised with.
MaxLedgerWeight == 2

\* Owners: this program, the system program, a member of
\* config::NO_UPDATE_TRACKING_OWNERS, and any other program.
Owners == {"program_id", "system_program", "no_update_tracking", "external"}

TAG_STORAGE_CELL == "TAG_STORAGE_CELL"
TAG_ACCOUNT_CONTRACT == "TAG_ACCOUNT_CONTRACT"
TAG_ACCOUNT_BALANCE == "TAG_ACCOUNT_BALANCE"

\* The kinds of account in scope: owner and tag byte.
Kind(owner, t) == [owner |-> owner, tag |-> t]
AccountKinds ==
    {Kind("program_id", TAG_STORAGE_CELL), Kind("program_id", TAG_ACCOUNT_CONTRACT),
     Kind("program_id", TAG_ACCOUNT_BALANCE), Kind("program_id", TAG_HOLDER),
     Kind("system_program", "none"), Kind("no_update_tracking", "none"),
     Kind("external", "none")}

\* An account as AccountInfo shows it: owner, lamports and data, the data
\* being the tag byte, the revision counter (of the kinds that have one) and
\* the remaining bytes.
NewAccount(kind) ==
    [owner |-> kind.owner, tag |-> kind.tag, lamports |-> 0, revision |-> 0,
     data |-> 0]

\* The raw bytes of an account: info.data.
RawBytes(a) == <<a.tag, a.revision, a.data>>

\* The populations of accounts the ledger is checked on: every kind occurs.
Populations ==
    {<<NewAccount(Kind("program_id", TAG_STORAGE_CELL)), NewAccount(Kind("external", "none"))>>,
     <<NewAccount(Kind("external", "none")), NewAccount(Kind("program_id", TAG_ACCOUNT_BALANCE))>>,
     <<NewAccount(Kind("program_id", TAG_ACCOUNT_CONTRACT)), NewAccount(Kind("system_program", "none"))>>,
     <<NewAccount(Kind("no_update_tracking", "none")), NewAccount(Kind("program_id", TAG_HOLDER))>>,
     <<NewAccount(Kind("external", "none")), NewAccount(Kind("external", "none"))>>}

\* crate::account::tag: the tag byte of an account this program owns.
account_tag(a) == IF a.owner = "program_id" THEN a.tag ELSE "Err"

\* solana_program::hash::hashv over owner, lamports and data: a hash without
\* collisions, so the triple itself.
hashv(a) == <<a.owner, a.lamports, RawBytes(a)>>

\* AccountRevision::new with a slip: the data is left out of the hash.
AccountRevisionNoData(a) ==
    IF a.owner # "program_id" /\ a.owner # "system_program"
    THEN IF a.owner = "no_update_tracking"
         THEN [kind |-> "Hash", v |-> <<"Hash::default">>]
         ELSE [kind |-> "Hash", v |-> <<a.owner, a.lamports>>]
    ELSE IF account_tag(a) \in {TAG_STORAGE_CELL, TAG_ACCOUNT_CONTRACT,
                                TAG_ACCOUNT_BALANCE}
         THEN [kind |-> "Revision", v |-> <<a.revision>>]
         ELSE [kind |-> "Revision", v |-> <<0>>]

\* AccountRevision::new: the fingerprint of an account.
AccountRevision(a) ==
    IF a.owner # "program_id" /\ a.owner # "system_program"
    THEN IF a.owner = "no_update_tracking"
         THEN [kind |-> "Hash", v |-> <<"Hash::default">>]
         ELSE [kind |-> "Hash", v |-> hashv(a)]
    ELSE IF account_tag(a) \in {TAG_STORAGE_CELL, TAG_ACCOUNT_CONTRACT,
                                TAG_ACCOUNT_BALANCE}
         THEN [kind |-> "Revision", v |-> <<a.revision>>]
         ELSE [kind |-> "Revision", v |-> <<0>>]

\* super::validate_tag
validate_tag(t, expected) == t = expected

\* StateAccount::from_account with a slip: a finalized record passes too.
from_account_lenient(t) ==
    IF validate_tag(t, TAG_STATE) \/ validate_tag(t, TAG_STATE_FINALIZED)
    THEN "Ok" ELSE "AccountInvalidTag"

\* StateAccount::from_account: fails unless the tag is TAG_STATE.
from_account(t) == IF validate_tag(t, TAG_STATE) THEN "Ok" ELSE "AccountInvalidTag"

\* The closure is_touched_account of restore:
\* touched_accounts.get(key).map(|counter| counter > &1).is_some()
is_touched_account(t, key) ==
    LET get == IF t[key] = 0 THEN {} ELSE {t[key]}
        map == {counter > 1 : counter \in get}
    IN  map # {}

\* StateAccount::restore with a slip: the recorded entry of one account is
\* compared with the fingerprint of its neighbour.
restore_misindexed(revs, t, accs) ==
    LET mismatch == \E k \in Keys :
            is_touched_account(t, k)
            /\ revs[k] # AccountRevision(accs[IF k + 1 \in Keys THEN k + 1 ELSE 1])
    IN  IF mismatch
        THEN [status |-> "NeedRestart",
              revisions |-> [k \in Keys |-> AccountRevision(accs[k])]]
        ELSE [status |-> "Ok", revisions |-> revs]

\* StateAccount::restore with a slip: after a mismatch only the touched
\* accounts get a fresh fingerprint.
restore_partial(revs, t, accs) ==
    LET mismatch == \E k \in Keys :
            is_touched_account(t, k) /\ revs[k] # AccountRevision(accs[k])
    IN  IF mismatch
        THEN [status |-> "NeedRestart",
              revisions |-> [k \in Keys |->
                                IF is_touched_account(t, k)
                                THEN AccountRevision(accs[k]) ELSE revs[k]]]
        ELSE [status |-> "Ok", revisions |-> revs]

\* StateAccount::restore on a record: the status and the revisions after it.
\* The loop stops at the first mismatch; which account that is shows only in
\* the log.
restore(revs, t, accs) ==
    LET mismatch == \E k \in Keys :
            is_touched_account(t, k) /\ revs[k] # AccountRevision(accs[k])
    IN  IF mismatch
        THEN [status |-> "NeedRestart",
              revisions |-> [k \in Keys |-> AccountRevision(accs[k])]]
        ELSE [status |-> "Ok", revisions |-> revs]

RECURSIVE update_touched(_, _, _)
\* StateAccount::update_touched_accounts, key by key from key k on:
\* update_or_insert with checked_add; an overflow stops the loop.
update_touched(t, step, k) ==
    IF k \notin Keys THEN [err |-> "Ok", touched_accounts |-> t]
    ELSE IF step[k] = 0 THEN update_touched(t, step, k + 1)
    ELSE IF t[k] + step[k] > MaxWeight
    THEN [err |-> "IntegerOverflow", touched_accounts |-> t]
    ELSE update_touched([t EXCEPT ![k] = @ + step[k]], step, k + 1)

\* StateAccount::update_touched_accounts with a slip: the weight of a step
\* replaces the weight of the record.
update_touched_accounts_replace(t, step) ==
    [err |-> "Ok",
     touched_accounts |-> [k \in Keys |-> IF step[k] # 0 THEN step[k] ELSE t[k]]]

update_touched_accounts(t, step) == update_touched(t, step, 1)


\* StateAccount::new with a slip: the tag of the account is left as found.
new_keeps_tag(t, owner_ok, trx_ok, transaction, accs) ==
    [err |-> IF t = TAG_HOLDER
             THEN (IF owner_ok THEN "Ok" ELSE "InvalidOwner")
             ELSE IF t = TAG_STATE_FINALIZED
             THEN (IF ~owner_ok THEN "InvalidOwner"
                   ELSE IF ~trx_ok THEN "InvalidTransaction" ELSE "Ok")
             ELSE "AccountInvalidTag",
     tag |-> t,
     trx |-> transaction,
     revisions |-> [k \in Keys |-> AccountRevision(accs[k])],
     touched_accounts |-> NoTouched,
     gas_used |-> 0,
     steps_executed |-> 0,
     executor_state_offset |-> 0,
     evm_offset |-> 0]

new_over_active(t, owner_ok, trx_ok, transaction, accs) ==
    [err |-> IF t \in {TAG_HOLDER, TAG_STATE}
             THEN (IF owner_ok THEN "Ok" ELSE "InvalidOwner")
             ELSE IF t = TAG_STATE_FINALIZED
             THEN (IF ~owner_ok THEN "InvalidOwner"
                   ELSE IF ~trx_ok THEN "InvalidTransaction" ELSE "Ok")
             ELSE "AccountInvalidTag",
     tag |-> TAG_STATE,
     trx |-> transaction,
     revisions |-> [k \in Keys |-> AccountRevision(accs[k])],
     touched_accounts |-> NoTouched,
     gas_used |-> 0,
     steps_executed |-> 0,
     executor_state_offset |-> 0,
     evm_offset |-> 0]

\* StateAccount::new on a storage account with tag t: the error (by the tag
\* and by the outcome of validate_owner and validate_trx on the account
\* found) and, without error, the tag, the header and the Data it writes.
new(t, owner_ok, trx_ok, transaction, accs) ==
    [err |-> IF t = TAG_HOLDER
             THEN (IF owner_ok THEN "Ok" ELSE "InvalidOwner")
             ELSE IF t = TAG_STATE_FINALIZED
             THEN (IF ~owner_ok THEN "InvalidOwner"
                   ELSE IF ~trx_ok THEN "InvalidTransaction" ELSE "Ok")
             ELSE "AccountInvalidTag",
     tag |-> TAG_STATE,
     trx |-> transaction,
     revisions |-> [k \in Keys |-> AccountRevision(accs[k])],
     touched_accounts |-> NoTouched,
     gas_used |-> 0,
     steps_executed |-> 0,
     executor_state_offset |-> 0,
     evm_offset |-> 0]

-----------------------------------------------------------------------------
(* SpecRev: the revision ledger of one record: it is created over a        *)
(* population of accounts, accounts are touched, other transactions mutate *)
(* them, and the record is restored.                                       *)

\* hist in SpecRev:
\*   status  the AccountsStatus the latest restore returned
\*   view    each account as it was when its fingerprint was recorded
\*   seen    each account as it was at the latest create or restore
RevHist(status, view, seen) == [status |-> status, view |-> view, seen |-> seen]

InitRev ==
    /\ tag = TAG_HOLDER
    /\ trx = [gas_limit |-> 1, gas_price |-> 0, chain_id |-> "None", nonce |-> 0]
    /\ gas_used = 0
    /\ steps_executed = 0
    /\ revisions = [k \in Keys |-> AccountRevision(NewAccount(Kind("system_program", "none")))]
    /\ touched_accounts = NoTouched
    /\ executor_state_offset = 0
    /\ evm_offset = 0
    /\ BlobIdle
    /\ accounts \in Populations
    /\ operator_balance = [c \in ChainIds |-> 0]
    /\ origin_balance = 0
    /\ origin_nonce = 0
    /\ applied = 0
    /\ CallIdle
    /\ hist = RevHist("None", accounts, accounts)

\* StateAccount::new on the storage account.
New ==
    \E owner_ok \in BOOLEAN :
        LET n == new(tag, owner_ok, TRUE, trx, accounts) IN
        /\ op' = "new"
        /\ err' = n.err
        /\ IF n.err = "Ok"
           THEN /\ tag' = n.tag
                /\ trx' = n.trx
                /\ revisions' = n.revisions
                /\ touched_accounts' = n.touched_accounts
                /\ gas_used' = n.gas_used
                /\ steps_executed' = n.steps_executed
                /\ executor_state_offset' = n.executor_state_offset
                /\ evm_offset' = n.evm_offset
                /\ hist' = RevHist("None", accounts, accounts)
           ELSE UNCHANGED <<recordVars, hist>>
        /\ UNCHANGED <<blobVars, durableVars, arg>>

\* StateAccount::update_touched_accounts with the touched map of one step.
UpdateTouchedAccounts ==
    /\ tag = TAG_STATE
    /\ \E step \in [Keys -> 0..2] :
        LET r == update_touched_accounts(touched_accounts, step) IN
        /\ \A k \in Keys : touched_accounts[k] + step[k] <= MaxLedgerWeight
        /\ touched_accounts' = r.touched_accounts
        /\ op' = "update_touched_accounts"
        /\ err' = r.err
    /\ UNCHANGED <<tag, trx, gas_used, steps_executed, revisions,
                   executor_state_offset, evm_offset, blobVars, durableVars,
                   arg, hist>>

\* Another transaction changes an account.
Mutated(k, account) ==
    /\ accounts' = [accounts EXCEPT ![k] = account]
    /\ op' = "mutate"
    /\ err' = "Ok"
    /\ UNCHANGED <<recordVars, blobVars, operator_balance, origin_balance,
                   origin_nonce, applied, arg, hist>>

\* Some bytes of an account's data change, its revision counter does not.
MutateData ==
    \E k \in Keys : Mutated(k, [accounts[k] EXCEPT !.data = 1 - @])

\* The lamports of an account change.
MutateLamports ==
    \E k \in Keys :
        /\ accounts[k].owner # "program_id"
        /\ Mutated(k, [accounts[k] EXCEPT !.lamports = 1 - @])

\* The program changes one of its versioned accounts: increment_revision.
IncrementRevision ==
    \E k \in Keys :
        /\ account_tag(accounts[k]) \in {TAG_STORAGE_CELL, TAG_ACCOUNT_CONTRACT,
                                         TAG_ACCOUNT_BALANCE}
        /\ accounts[k].revision < MaxRevision
        /\ Mutated(k, [accounts[k] EXCEPT !.revision = @ + 1])

\* StateAccount::restore on the storage account.
Restore ==
    /\ op' = "restore"
    /\ err' = from_account(tag)
    /\ IF from_account(tag) = "Ok"
       THEN LET r == restore(revisions, touched_accounts, accounts) IN
            /\ revisions' = r.revisions
            /\ hist' = RevHist(r.status,
                               IF r.status = "NeedRestart" THEN accounts
                               ELSE hist.view,
                               accounts)
       ELSE UNCHANGED <<revisions, hist>>
    /\ UNCHANGED <<tag, trx, gas_used, steps_executed, touched_accounts,
                   executor_state_offset, evm_offset, blobVars, durableVars,
                   arg>>

NextRev ==
    \/ New
    \/ UpdateTouchedAccounts
    \/ MutateData
    \/ MutateLamports
    \/ IncrementRevision
    \/ Restore

SpecRev == InitRev /\ [][NextRev]_vars

\* The accounts the record has touched: those with an entry in the map.
Touched(k) == touched_accounts[k] > 0

(* C9 as stated: if the raw bytes of an account the transaction has        *)
(* touched changed since the previous restore (or the create), restore     *)
(* reports NeedRestart.                                                    *)
C9_Original ==
    [][(op' = "restore" /\ err' = "Ok"
        /\ \E k \in Keys : Touched(k)
                /\ RawBytes(accounts[k]) # RawBytes(hist.seen[k]))
       => hist'.status = "NeedRestart"]_vars

(* C9, amended: restore reports NeedRestart if a touched account whose     *)
(* fingerprint is a content hash (its owner is neither this program, the   *)
(* system program nor a no-update-tracking owner) has raw bytes other than *)
(* those it had when its fingerprint was last recorded (at create or by    *)
(* the latest restore that reported NeedRestart), or if a touched storage  *)
(* cell, contract or balance account of this program has another revision *)
(* counter than it had then.                                               *)
C9_NoFalseNegatives ==
    [][(op' = "restore" /\ err' = "Ok"
        /\ \E k \in Keys : Touched(k)
                /\ \/ /\ accounts[k].owner = "external"
                      /\ RawBytes(accounts[k]) # RawBytes(hist.view[k])
                   \/ /\ accounts[k].owner = "program_id"
                      /\ account_tag(accounts[k]) \in {TAG_STORAGE_CELL,
                             TAG_ACCOUNT_CONTRACT, TAG_ACCOUNT_BALANCE}
                      /\ accounts[k].revision # hist.view[k].revision)
       => hist'.status = "NeedRestart"]_vars

\* A restore reported NeedRestart for a touched hashed account whose bytes
\* had changed, and nothing else had.
C9_Witness ==
    /\ op = "restore" /\ err = "Ok" /\ hist.status = "NeedRestart"
    /\ \E k \in Keys :
        /\ Touched(k)
        /\ accounts[k].owner = "external"
        /\ accounts[k].data # 0
        /\ accounts[k].lamports = 0
        /\ \A j \in Keys \ {k} : accounts[j] = NewAccount(Kind(accounts[j].owner, accounts[j].tag))

(* C10: if every account in scope is, at a restore, as it was when its     *)
(* fingerprint was recorded (owner, lamports, data and revision counter),  *)
(* the recomputed fingerprints equal the recorded ones and restore returns *)
(* Ok, leaving the recorded revisions as they are.                         *)
C10_NoFalsePositives ==
    [][(op' = "restore" /\ err' = "Ok" /\ \A k \in Keys : accounts[k] = hist.view[k])
       => /\ hist'.status = "Ok"
          /\ revisions' = revisions
          /\ \A k \in Keys : AccountRevision(accounts[k]) = revisions[k]]_vars

\* A restore returned Ok on touched accounts that had been mutated earlier
\* and whose fingerprints a NeedRestart had refreshed since.
C10_Witness ==
    /\ op = "restore" /\ err = "Ok" /\ hist.status = "Ok"
    /\ \A k \in Keys : Touched(k) /\ accounts[k] = hist.view[k]
    /\ \E k \in Keys : accounts[k].data # 0


(* C11: restore compares only the accounts whose touched weight exceeds   *)
(* the read-only threshold (weight > 1): when every account of a larger    *)
(* weight has its recorded fingerprint, restore returns Ok, whatever        *)
(* happened to the accounts of weight 1 and to those not in the map.        *)
C11_OnlyAboveThreshold ==
    [][(op' = "restore" /\ err' = "Ok"
        /\ \A k \in Keys : touched_accounts[k] > 1
                => AccountRevision(accounts[k]) = revisions[k])
       => hist'.status = "Ok"]_vars

(* C12: a restore that reports NeedRestart replaces the recorded           *)
(* fingerprint of every account passed to it by the current one, and a     *)
(* restore that follows it at once returns Ok; a restore that reports Ok   *)
(* leaves the recorded revisions as they are.                              *)
C12_RefreshOnNeedRestart ==
    [][(op' = "restore" /\ err' = "Ok")
       => /\ hist'.status = "NeedRestart"
                => revisions' = [k \in Keys |-> AccountRevision(accounts[k])]
          /\ hist'.status = "Ok" => revisions' = revisions
          /\ (op = "restore" /\ err = "Ok") => hist'.status = "Ok"]_vars

\* A restore reported NeedRestart over a changed touched account and a
\* changed untouched one, and the restore after it returned Ok.
C12_Witness ==
    /\ op = "restore" /\ err = "Ok" /\ hist.status = "Ok"
    /\ \E k, j \in Keys :
        /\ Touched(k) /\ ~Touched(j)
        /\ accounts[k].data # 0 /\ accounts[j].data # 0
        /\ accounts[k].owner = "external" /\ accounts[j].owner = "external"
        /\ \A i \in Keys : revisions[i] = AccountRevision(accounts[i])

-----------------------------------------------------------------------------
(* Spec: the step driver (instruction/transaction_step.rs) over one        *)
(* storage account.  A step is one instruction of a host transaction: an   *)
(* error aborts the host transaction, so the step leaves no trace.         *)

\* Virtual steps the transaction's program takes to its terminal exit.
ProgramLen == 3
\* The largest step budget a continue instruction asks for.
MaxStepCount == 2
\* config::EVM_STEPS_MIN and config::EVM_STEPS_LAST_ITERATION_MAX, scaled.
EVM_STEPS_MIN == 2
EVM_STEPS_LAST_ITERATION_MAX == 1
\* Tokens of the origin before the transaction begins.
OriginFunds == {2, MaxU256}

\* The offsets leak_and_offset returns for the two blobs: not zero.
EvmOffset == 1
ExecutorStateOffset == 2

\* AllocateResult of accounts.allocate(actions).
AllocateResults == {"Ready", "NeedMoreReallocations"}

\* The heap of a storage account that holds no blob.
NoHeap == [evm |-> 0, executor_state |-> 0]

\* The blobs of the account's heap the header points at, by kind.
Pointed ==
    [evm |-> IF evm_offset # 0 THEN 1 ELSE 0,
     executor_state |-> IF executor_state_offset # 0 THEN 1 ELSE 0]

\* The state one step works on: the record, the blobs, the balances and the
\* notes the step leaves in hist; heap counts the blobs leaked into the
\* account and not dropped, at the start those the header points at.
Here ==
    [err |-> "Ok", tag |-> tag, trx |-> trx, gas_used |-> gas_used,
     steps_executed |-> steps_executed, revisions |-> revisions,
     touched_accounts |-> touched_accounts,
     executor_state_offset |-> executor_state_offset,
     evm_offset |-> evm_offset, actions |-> actions, stack |-> stack,
     exit_status |-> exit_status, cache |-> cache, touched |-> touched,
     evm_pc |-> evm_pc, heap |-> Pointed,
     operator_balance |-> operator_balance,
     origin_balance |-> origin_balance, origin_nonce |-> origin_nonce,
     applied |-> applied, results |-> "None", allocate |-> "None",
     refunds |-> hist.refunds, origin_revision |-> hist.origin_revision,
     status |-> "None", reset |-> FALSE]

\* let x = e; body, written Let([x \in {e} |-> body]): e is evaluated once
\* and the body works on its value.
Let(f) == CHOOSE r \in UNION {{g[x] : x \in DOMAIN g} : g \in {f}} : TRUE

Fail(s, e) == [s EXCEPT !.err = e]

\* The latest block of the backend the driver is exercised with.
MaxBlock == 1

\* ExecutorStateData::new: an empty log, no exit status, and a cache that
\* holds the block number and timestamp of the backend and no account.
ExecutorStateData_new(s, block) ==
    [s EXCEPT !.actions = <<>>, !.stack = <<>>, !.exit_status = "None",
              !.cache = [NoCache EXCEPT !.block_number = block,
                                        !.block_timestamp = block],
              !.touched = NoTouched]

\* allocate_or_reinit_state with a slip: a restart gives the gas back.
allocate_or_reinit_state_refund(s, is_allocate, block) ==
    IF is_allocate
    THEN [ExecutorStateData_new(s, block) EXCEPT
              !.steps_executed = 0,
              !.gas_used = 0,
              !.evm_pc = 0,
              !.evm_offset = EvmOffset,
              !.executor_state_offset = ExecutorStateOffset,
              !.heap = [evm |-> @.evm + 1,
                        executor_state |-> @.executor_state + 1]]
    ELSE s

\* allocate_or_reinit_state with a slip: reset_steps_executed is left out.
allocate_or_reinit_state_keeps_steps(s, is_allocate, block) ==
    IF is_allocate
    THEN [ExecutorStateData_new(s, block) EXCEPT
              !.evm_pc = 0,
              !.evm_offset = EvmOffset,
              !.executor_state_offset = ExecutorStateOffset,
              !.heap = [evm |-> @.evm + 1,
                        executor_state |-> @.executor_state + 1]]
    ELSE s

\* StateAccount::alloc_evm: the interpreter is leaked into the account and
\* the header points at it.
alloc_evm(s) == [s EXCEPT !.heap.evm = @ + 1, !.evm_offset = EvmOffset]

\* StateAccount::alloc_executor_state.
alloc_executor_state(s) ==
    [s EXCEPT !.heap.executor_state = @ + 1,
              !.executor_state_offset = ExecutorStateOffset]

is_evm_alloced(s) == s.evm_offset # 0

is_executor_state_alloced(s) == s.executor_state_offset # 0

\* StateAccount::dealloc_evm: the blob the header points at is dropped and
\* the offset zeroed; map_obj asserts that the offset is above zero.
dealloc_evm(s) ==
    IF s.evm_offset = 0 THEN Fail(s, PanicAssert)
    ELSE [s EXCEPT !.heap.evm = @ - 1, !.evm_offset = 0]

\* StateAccount::dealloc_executor_state.
dealloc_executor_state(s) ==
    IF s.executor_state_offset = 0 THEN Fail(s, PanicAssert)
    ELSE [s EXCEPT !.heap.executor_state = @ - 1, !.executor_state_offset = 0]

\* allocate_evm (instruction_internals.rs): the blobs found allocated are
\* released, the block parameters of a released executor state are kept,
\* and the two blobs are allocated anew.
allocate_evm(s, block) ==
    LET s1 == IF is_evm_alloced(s) THEN dealloc_evm(s) ELSE s
        kept == IF is_executor_state_alloced(s1) THEN s1.cache.block_number
                ELSE block
        s2 == IF is_executor_state_alloced(s1) THEN dealloc_executor_state(s1)
              ELSE s1
    IN  alloc_executor_state(alloc_evm(
            [ExecutorStateData_new(s2, kept) EXCEPT !.steps_executed = 0,
                                                    !.evm_pc = 0]))

\* allocate_or_reinit_state with a slip: the allocation of the blobs takes
\* the origin through the increment of its nonce and the burn again.
allocate_or_reinit_state_burns(s, is_allocate, block) ==
    IF is_allocate
    THEN alloc_executor_state(alloc_evm(
             [ExecutorStateData_new(s, block) EXCEPT
                  !.steps_executed = 0, !.evm_pc = 0,
                  !.origin_nonce = @ + 1,
                  !.origin_balance = saturating_sub(@, s.trx.gas_limit * s.trx.gas_price)]))
    ELSE s

\* allocate_or_reinit_state (transaction_step.rs); block is what the backend
\* reports as its block number and timestamp during the step.
allocate_or_reinit_state(s, is_allocate, block) ==
    IF is_allocate
    THEN alloc_executor_state(alloc_evm(
             [ExecutorStateData_new(s, block) EXCEPT !.steps_executed = 0,
                                                     !.evm_pc = 0]))
    ELSE s

RECURSIVE run(_, _)
\* The actions n virtual steps record, appended to the log.
run(acts, n) == IF n = 0 THEN acts ELSE run(Append(acts, EvmSetStorage(1, 1)), n - 1)

\* Machine::execute: up to step_count virtual steps of the program; every
\* step records an action, an iteration that runs touches account 1.
execute(s, step_count) ==
    Let([n \in {Min(step_count, ProgramLen - s.evm_pc)} |->
    [state |-> [s EXCEPT !.evm_pc = @ + n,
                         !.actions = run(@, n),
                         !.touched = IF n > 0 THEN touch_account(@, 1, 1) ELSE @],
     exit_status |-> IF s.evm_pc + n = ProgramLen THEN "Stop" ELSE "StepLimit",
     steps_returned |-> n]])

\* ExecutorStateData::deconstruct: the results, the touched map moved out.
deconstruct(s) ==
    [results |-> IF s.exit_status # "None" THEN "Some" ELSE "None",
     touched_accounts |-> s.touched,
     state |-> [s EXCEPT !.touched = NoTouched]]

\* StateFinalizedAccount::convert_from_state: the tag becomes finalized and
\* the record keeps no blob.
convert_from_state(s) ==
    [s EXCEPT !.tag = TAG_STATE_FINALIZED, !.executor_state_offset = 0,
              !.evm_offset = 0, !.heap = NoHeap]


\* accounts.origin(storage.trx_origin(), storage.trx()): the balance account
\* of the transaction's origin on the transaction's chain.
accounts_origin(t) == [chain_id |-> trx_chain_id(t), address |-> trx_origin]

\* accounts.apply_state_change(actions): the pending actions reach the
\* durable accounts.
apply_state_change(s) == [s EXCEPT !.applied = @ + 1]

\* finalize with a slip: the actions are applied before allocate is asked.
finalize_eager(s, steps, results, tch, alloc, used_gas, receiver) ==
    LET u == update_touched_accounts(s.touched_accounts, tch) IN
    IF u.err # "Ok" THEN Fail(s, u.err)
    ELSE
    LET s1 == [s EXCEPT !.touched_accounts = u.touched_accounts,
                        !.steps_executed = @ + steps,
                        !.results = results,
                        !.allocate = IF results = "Some" THEN alloc ELSE "None"]
        applies == results = "Some"
        status == results = "Some" /\ alloc = "Ready"
        s2 == IF applies THEN apply_state_change(s1) ELSE s1
        g == consume_gas(s2.trx, s2.gas_used, used_gas, receiver,
                         s2.operator_balance)
    IN  IF g.err # "Ok" THEN Fail(s, g.err)
        ELSE
        LET s3 == [s2 EXCEPT !.gas_used = g.gas_used,
                             !.operator_balance = g.balances]
        IN  IF ~status THEN s3
            ELSE
            LET r == refund_unused_gas(s3.trx, s3.gas_used, s3.origin_balance,
                                       accounts_origin(s3.trx))
            IN
            IF r.err # "Ok" THEN Fail(s, r.err)
            ELSE convert_from_state([s3 EXCEPT !.gas_used = r.gas_used,
                                               !.origin_balance = r.balance,
                                               !.refunds = @ + 1,
                                       !.origin_revision = @ + 1])

\* finalize with a slip: the exit status is kept whatever allocate returns.
finalize_unready(s, steps, results, tch, alloc, used_gas, receiver) ==
    LET u == update_touched_accounts(s.touched_accounts, tch) IN
    IF u.err # "Ok" THEN Fail(s, u.err)
    ELSE
    LET s1 == [s EXCEPT !.touched_accounts = u.touched_accounts,
                        !.steps_executed = @ + steps,
                        !.results = results,
                        !.allocate = IF results = "Some" THEN alloc ELSE "None"]
        applies == results = "Some" /\ alloc = "Ready"
        status == results = "Some"
        s2 == IF applies THEN apply_state_change(s1) ELSE s1
        g == consume_gas(s2.trx, s2.gas_used, used_gas, receiver,
                         s2.operator_balance)
    IN  IF g.err # "Ok" THEN Fail(s, g.err)
        ELSE
        LET s3 == [s2 EXCEPT !.gas_used = g.gas_used,
                             !.operator_balance = g.balances]
        IN  IF ~status THEN s3
            ELSE
            LET r == refund_unused_gas(s3.trx, s3.gas_used, s3.origin_balance,
                                       accounts_origin(s3.trx))
            IN
            IF r.err # "Ok" THEN Fail(s, r.err)
            ELSE convert_from_state([s3 EXCEPT !.gas_used = r.gas_used,
                                               !.origin_balance = r.balance,
                                               !.refunds = @ + 1,
                                       !.origin_revision = @ + 1])

\* finalize of transaction_step.rs: the touched map and the steps are added to
\* the record; with results and AllocateResult::Ready the actions are applied;
\* the gas of the iteration is charged; with a status the unused gas is
\* refunded and the record finalized.
finalize(s, steps, results, tch, alloc, used_gas, receiver) ==
    Let([u \in {update_touched_accounts(s.touched_accounts, tch)} |->
    IF u.err # "Ok" THEN Fail(s, u.err)
    ELSE
    Let([s1 \in {[s EXCEPT !.touched_accounts = u.touched_accounts,
                  !.steps_executed = @ + steps,
                  !.results = results,
                  !.allocate = IF results = "Some" THEN alloc ELSE "None"]} |->
    Let([status \in {results = "Some" /\ alloc = "Ready"} |->
    Let([s2 \in {IF status THEN apply_state_change(s1) ELSE s1} |->
    Let([g \in {consume_gas(s2.trx, s2.gas_used, used_gas, receiver,
                    s2.operator_balance)} |->
    IF g.err # "Ok" THEN Fail(s, g.err)
    ELSE
    Let([s3 \in {[s2 EXCEPT !.gas_used = g.gas_used,
                   !.operator_balance = g.balances]} |->
    IF ~status THEN s3
    ELSE
    Let([r \in {refund_unused_gas(s3.trx, s3.gas_used, s3.origin_balance,
                          accounts_origin(s3.trx))} |->
    IF r.err # "Ok" THEN Fail(s, r.err)
    ELSE convert_from_state([s3 EXCEPT !.gas_used = r.gas_used,
                                       !.origin_balance = r.balance,
                                       !.refunds = @ + 1,
                                       !.origin_revision = @ + 1])])])])])])])])

\* do_begin with a slip: the transaction is not validated against the
\* origin.
do_begin_unvalidated(s, block, used_gas, receiver) ==
    LET gas_limit_in_tokens == s.trx.gas_limit * s.trx.gas_price IN
    IF gas_limit_in_tokens > MaxU256 THEN Fail(s, "IntegerOverflow")
    ELSE IF s.origin_balance < gas_limit_in_tokens
    THEN Fail(s, "InsufficientBalance")
    ELSE
    LET s1 == [s EXCEPT !.origin_revision = @ + 1,
                        !.origin_nonce = @ + 1,
                        !.origin_balance = @ - gas_limit_in_tokens]
        s2 == allocate_or_reinit_state(s1, TRUE, block)
        d == deconstruct(s2)
    IN  finalize(d.state, 0, "None", d.touched_accounts, "None", used_gas,
                 receiver)

\* do_begin: the transaction is validated against the origin (its nonce),
\* the origin's revision and nonce are incremented and gas_limit tokens are
\* burnt, the blobs are allocated and finalize runs with no steps and no
\* results.
do_begin(s, block, used_gas, receiver) ==
    LET gas_limit_in_tokens == s.trx.gas_limit * s.trx.gas_price IN
    IF s.trx.nonce # s.origin_nonce THEN Fail(s, "InvalidNonce")
    ELSE IF gas_limit_in_tokens > MaxU256 THEN Fail(s, "IntegerOverflow")
    ELSE IF s.origin_balance < gas_limit_in_tokens
    THEN Fail(s, "InsufficientBalance")
    ELSE
    LET s1 == [s EXCEPT !.origin_revision = @ + 1,
                        !.origin_nonce = @ + 1,
                        !.origin_balance = @ - gas_limit_in_tokens]
        s2 == allocate_or_reinit_state(s1, TRUE, block)
        d == deconstruct(s2)
    IN  finalize(d.state, 0, "None", d.touched_accounts, "None", used_gas,
                 receiver)

\* do_continue with a slip: set_exit_status is left out.
do_continue_forgets_exit(s, step_count, reset, block, alloc, used_gas, receiver) ==
    IF step_count < EVM_STEPS_MIN /\ s.trx.gas_price > 0
    THEN Fail(s, "StepLimitBelowMinimum")
    ELSE
    Let([s1 \in {allocate_or_reinit_state(s, reset, block)} |->
    Let([x \in {execute(s1, step_count)} |->
    Let([ran \in {s1.exit_status = "None"} |->
    Let([s2 \in {IF ~ran THEN s1 ELSE x.state} |->
    Let([steps \in {IF ran THEN x.steps_returned ELSE 0} |->
    Let([d \in {deconstruct(s2)} |->
    Let([results \in {IF steps > EVM_STEPS_LAST_ITERATION_MAX THEN "None" ELSE d.results} |->
    finalize(d.state, steps, results, d.touched_accounts, alloc, used_gas,
             receiver)])])])])])])])

\* do_continue with a slip: the results of a long last iteration are kept.
do_continue_uncapped(s, step_count, reset, block, alloc, used_gas, receiver) ==
    IF step_count < EVM_STEPS_MIN /\ s.trx.gas_price > 0
    THEN Fail(s, "StepLimitBelowMinimum")
    ELSE
    LET s1 == allocate_or_reinit_state(s, reset, block)
        x == execute(s1, step_count)
        ran == s1.exit_status = "None"
        s2 == IF ~ran THEN s1
              ELSE IF x.exit_status # "StepLimit"
              THEN [x.state EXCEPT !.exit_status = x.exit_status]
              ELSE x.state
        steps == IF ran THEN x.steps_returned ELSE 0
        d == deconstruct(s2)
        results == d.results
    IN  finalize(d.state, steps, results, d.touched_accounts, alloc, used_gas,
                 receiver)

\* do_continue with a slip: the minimum is asked of free transactions only.
do_continue_min_for_free(s, step_count, reset, block, alloc, used_gas, receiver) ==
    IF step_count < EVM_STEPS_MIN /\ s.trx.gas_price = 0
    THEN Fail(s, "StepLimitBelowMinimum")
    ELSE
    LET s1 == allocate_or_reinit_state(s, reset, block)
        x == execute(s1, step_count)
        ran == s1.exit_status = "None"
        s2 == IF ~ran THEN s1
              ELSE IF x.exit_status # "StepLimit"
              THEN [x.state EXCEPT !.exit_status = x.exit_status]
              ELSE x.state
        steps == IF ran THEN x.steps_returned ELSE 0
        d == deconstruct(s2)
        results == IF steps > EVM_STEPS_LAST_ITERATION_MAX THEN "None"
                   ELSE d.results
    IN  finalize(d.state, steps, results, d.touched_accounts, alloc, used_gas,
                 receiver)

\* do_continue with a slip: the cap on the last iteration is put on the
\* steps of the record, not on those of the call.
do_continue_caps_total(s, step_count, reset, block, alloc, used_gas, receiver) ==
    IF step_count < EVM_STEPS_MIN /\ s.trx.gas_price > 0
    THEN Fail(s, "StepLimitBelowMinimum")
    ELSE
    Let([s1 \in {allocate_or_reinit_state(s, reset, block)} |->
    Let([x \in {execute(s1, step_count)} |->
    Let([ran \in {s1.exit_status = "None"} |->
    Let([s2 \in {IF ~ran THEN s1
        ELSE IF x.exit_status # "StepLimit"
        THEN [x.state EXCEPT !.exit_status = x.exit_status]
        ELSE x.state} |->
    Let([steps \in {IF ran THEN x.steps_returned ELSE 0} |->
    Let([d \in {deconstruct(s2)} |->
    Let([results \in {IF s2.steps_executed + steps > EVM_STEPS_LAST_ITERATION_MAX
                      THEN "None" ELSE d.results} |->
    finalize(d.state, steps, results, d.touched_accounts, alloc, used_gas,
             receiver)])])])])])])])

\* do_continue
do_continue(s, step_count, reset, block, alloc, used_gas, receiver) ==
    IF step_count < EVM_STEPS_MIN /\ s.trx.gas_price > 0
    THEN Fail(s, "StepLimitBelowMinimum")
    ELSE
    Let([s1 \in {allocate_or_reinit_state(s, reset, block)} |->
    Let([x \in {execute(s1, step_count)} |->
    Let([ran \in {s1.exit_status = "None"} |->
    Let([s2 \in {IF ~ran THEN s1
        ELSE IF x.exit_status # "StepLimit"
        THEN [x.state EXCEPT !.exit_status = x.exit_status]
        ELSE x.state} |->
    Let([steps \in {IF ran THEN x.steps_returned ELSE 0} |->
    Let([d \in {deconstruct(s2)} |->
    Let([results \in {IF steps > EVM_STEPS_LAST_ITERATION_MAX THEN "None" ELSE d.results} |->
    finalize(d.state, steps, results, d.touched_accounts, alloc, used_gas,
             receiver)])])])])])])])

\* hist in Spec:
\*   status    the AccountsStatus restore returned in the latest step
\*   results   whether the latest step reached finalize with results
\*   allocate  the AllocateResult of the latest step, "None" if not asked
\*   refunds   how often unused gas has been refunded
\*   origin_revision  how often the revision of the origin's balance
\*             account has been incremented
\*   retried   a step had results and stayed active
\*   reset     the latest step allocated the blobs anew
StepHist(s, retried) ==
    [status |-> s.status, results |-> s.results, allocate |-> s.allocate,
     refunds |-> s.refunds, origin_revision |-> s.origin_revision,
     retried |-> retried, reset |-> s.reset]

Init ==
    /\ tag = TAG_HOLDER
    /\ trx \in {t \in Transactions : t.gas_limit = MaxGasLimit}
    /\ gas_used = 0
    /\ steps_executed = 0
    /\ revisions = [k \in Keys |-> AccountRevision(NewAccount(Kind("system_program", "none")))]
    /\ touched_accounts = NoTouched
    /\ executor_state_offset = 0
    /\ evm_offset = 0
    /\ actions = <<>>
    /\ stack = <<>>
    /\ exit_status = "None"
    /\ cache = NoCache
    /\ touched = NoTouched
    /\ evm_pc = 0
    /\ accounts = <<NewAccount(Kind("external", "none")),
                    NewAccount(Kind("program_id", TAG_STORAGE_CELL))>>
    /\ operator_balance = [c \in ChainIds |-> 0]
    /\ origin_balance \in OriginFunds
    /\ origin_nonce = 0
    /\ applied = 0
    /\ CallIdle
    /\ hist = [status |-> "None", results |-> "None", allocate |-> "None",
               refunds |-> 0, origin_revision |-> 0, retried |-> FALSE,
               reset |-> FALSE]

\* The step failed: the host transaction is rolled back, and nothing of the
\* step is left, its error included.
Aborted == UNCHANGED vars

\* The step succeeded: what it wrote is persisted.
Persisted(name, s, a, h) ==
    /\ op' = name
    /\ err' = "Ok"
    /\ arg' = a
    /\ hist' = h
    /\ tag' = s.tag
    /\ trx' = s.trx
    /\ gas_used' = s.gas_used
    /\ steps_executed' = s.steps_executed
    /\ revisions' = s.revisions
    /\ touched_accounts' = s.touched_accounts
    /\ executor_state_offset' = s.executor_state_offset
    /\ evm_offset' = s.evm_offset
    /\ actions' = s.actions
    /\ stack' = s.stack
    /\ exit_status' = s.exit_status
    /\ cache' = s.cache
    /\ touched' = s.touched
    /\ evm_pc' = s.evm_pc
    /\ operator_balance' = s.operator_balance
    /\ origin_balance' = s.origin_balance
    /\ origin_nonce' = s.origin_nonce
    /\ applied' = s.applied
    /\ UNCHANGED accounts

\* The instruction that begins the transaction held in the storage account,
\* on the state as it is: StateAccount::new, then do_begin.
begin_step(owner_ok, trx_ok, block, used_gas, receiver) ==
    LET n == new(tag, owner_ok, trx_ok, trx, accounts) IN
    IF n.err # "Ok" THEN Fail(Here, n.err)
    ELSE
    LET s0 == [Here EXCEPT !.tag = n.tag, !.trx = n.trx,
                           !.revisions = n.revisions,
                           !.touched_accounts = n.touched_accounts,
                           !.gas_used = n.gas_used,
                           !.steps_executed = n.steps_executed,
                           !.executor_state_offset = n.executor_state_offset,
                           !.evm_offset = n.evm_offset,
                           !.reset = TRUE]
    IN  do_begin(s0, block, used_gas, receiver)

\* Whether a continue instruction resets: the caller says so, or the
\* accounts need a restart.
resets(force) ==
    force \/ restore(revisions, touched_accounts, accounts).status # "Ok"

\* The instruction that continues the transaction, on the state as it is:
\* StateAccount::restore, then do_continue.
continue_step(step_count, force, block, alloc, used_gas, receiver) ==
    IF from_account(tag) # "Ok" THEN Fail(Here, from_account(tag))
    ELSE
    Let([r \in {restore(revisions, touched_accounts, accounts)} |->
    Let([reset \in {resets(force)} |->
    Let([s0 \in {[Here EXCEPT !.revisions = r.revisions, !.status = r.status,
                     !.reset = reset]} |->
    do_continue(s0, step_count, reset, block, alloc, used_gas, receiver)])])])

\* The receivers worth telling apart for a charge of used_gas: consume_gas
\* looks at the receiver only when it has tokens to mint.
ReceiversFor(used_gas) ==
    IF used_gas * trx.gas_price = 0 THEN {"None"} ELSE Receivers

\* The gas the gasometer reports for one step: none, one unit, or much.
GasCharges == {0, 1, MaxAmount}

\* Blocks are counted from the one the transaction begins in.
Begin ==
    \E owner_ok \in BOOLEAN, trx_ok \in BOOLEAN, used_gas \in GasCharges :
        \E receiver \in ReceiversFor(used_gas) :
        \E s \in {begin_step(owner_ok, trx_ok, 0, used_gas, receiver)} :
            IF s.err # "Ok" THEN Aborted
            ELSE Persisted("begin", s, 0, StepHist(s, FALSE))

Continue ==
    \E step_count \in 1..MaxStepCount, force \in BOOLEAN,
       alloc \in AllocateResults, used_gas \in GasCharges :
        \E receiver \in ReceiversFor(used_gas),
           block \in IF resets(force) THEN cache.block_number..MaxBlock
                     ELSE {cache.block_number} :
            \E s \in {continue_step(step_count, force, block, alloc, used_gas,
                                    receiver)} :
                IF s.err # "Ok" THEN Aborted
                ELSE Persisted("continue", s, step_count,
                               StepHist(s, hist.retried
                                           \/ (s.results = "Some"
                                               /\ s.tag = TAG_STATE)))

\* Another program changes the data of an account it owns.
Interleave ==
    /\ \E k \in Keys :
        /\ accounts[k].owner # "program_id"
        /\ accounts' = [accounts EXCEPT ![k].data = 1 - @]
    /\ op' = "mutate"
    /\ err' = "Ok"
    /\ arg' = 0
    /\ UNCHANGED <<recordVars, blobVars, operator_balance, origin_balance,
                   origin_nonce, applied, hist>>

Next ==
    \/ Begin
    \/ Continue
    \/ Interleave

Spec == Init /\ [][Next]_vars

\* A continue that asks for no restart and is charged no gas, in the block
\* of the cache, with the largest budget and room to materialize the results.
Resume ==
    \E s \in {continue_step(MaxStepCount, FALSE, cache.block_number, "Ready",
                             0, "None")} :
        IF s.err # "Ok" THEN Aborted
        ELSE Persisted("continue", s, MaxStepCount,
                       StepHist(s, hist.retried
                                   \/ (s.results = "Some" /\ s.tag = TAG_STATE)))

\* The operator goes on sending continue instructions while one can take
\* effect.
SpecLive == Init /\ [][Next]_vars /\ WF_vars(Resume)


-----------------------------------------------------------------------------
\* get_holder::read_holder: the status reported for a storage account.
read_holder(t) ==
    IF t = TAG_HOLDER THEN "Holder"
    ELSE IF t = TAG_STATE_FINALIZED THEN "Finalized"
    ELSE IF t = TAG_STATE THEN "Active"
    ELSE "InvalidAccountData"

(* C2: over the begin and continue steps of one logical transaction,       *)
(* apply_state_change runs at most once, and a step in which it runs       *)
(* starts on an active record and ends with the record finalized; a step   *)
(* that leaves the record active applies nothing.                          *)
C2_ApplyOnlyWhenFinalizing ==
    /\ [](applied <= 1)
    /\ [][applied' # applied
            => /\ applied' = applied + 1
               /\ read_holder(tag) = "Active"
               /\ read_holder(tag') = "Finalized"]_vars

\* The actions were applied in the step that finalized the record, after an
\* earlier step had a terminal exit result and left the record active.
C2_Witness ==
    /\ applied = 1
    /\ read_holder(tag) = "Finalized"
    /\ op = "continue" /\ err = "Ok"
    /\ hist.retried
    /\ Len(actions) = ProgramLen

(* C3: in a step that reaches finalize with a terminal exit result, the    *)
(* actions are applied and the record becomes finalized only if allocate   *)
(* returned Ready; when it did not, nothing is applied, no unused gas is   *)
(* refunded and the record stays active.                                   *)
C3_FinalizeOnlyWhenReady ==
    [][/\ (op' = "continue" /\ err' = "Ok" /\ hist'.results = "Some"
           /\ hist'.allocate # "Ready")
          => /\ applied' = applied
             /\ origin_balance' = origin_balance
             /\ hist'.refunds = hist.refunds
             /\ read_holder(tag') = "Active"
       /\ (read_holder(tag') = "Finalized" /\ read_holder(tag) # "Finalized")
          => /\ hist'.results = "Some"
             /\ hist'.allocate = "Ready"
             /\ applied' = applied + 1]_vars

\* A step had a terminal exit result, allocate was not Ready, and the step
\* charged its gas and left the record active with its blobs.
C3_Witness ==
    /\ op = "continue" /\ err = "Ok"
    /\ hist.results = "Some"
    /\ hist.allocate = "NeedMoreReallocations"
    /\ read_holder(tag) = "Active"
    /\ exit_status = "Stop"
    /\ gas_used > 0
    /\ trx.gas_price > 0
    /\ evm_offset # 0

\* The inputs of a continue instruction.
ContinueInputs ==
    [step_count : 1..MaxStepCount, force : BOOLEAN, block : 0..MaxBlock,
     alloc : AllocateResults, used_gas : 0..MaxAmount, receiver : Receivers]

(* C4: on a finalized record every further continue (restore, do_continue, *)
(* finalize), whatever its inputs, fails with AccountInvalidTag; the       *)
(* record stays finalized, no balance changes any more, and unused gas is  *)
(* refunded at most once.                                                  *)
C4_FinalizedIsFinal ==
    /\ [](hist.refunds <= 1)
    /\ [](read_holder(tag) = "Finalized"
            => \A i \in ContinueInputs :
                  continue_step(i.step_count, i.force, i.block, i.alloc,
                                i.used_gas, i.receiver).err = "AccountInvalidTag")
    /\ [][read_holder(tag) = "Finalized"
            => /\ UNCHANGED <<recordVars, operator_balance, origin_balance,
                              origin_nonce, applied>>
               /\ hist'.refunds = hist.refunds]_vars

\* A finalized record whose transaction has paid the operator and been
\* refunded, and whose accounts have changed since.
C4_Witness ==
    /\ read_holder(tag) = "Finalized"
    /\ op = "mutate"
    /\ hist.refunds = 1
    /\ origin_balance > 0
    /\ \E c \in ChainIds : operator_balance[c] > 0

(* C5: the storage account is a holder, an active record or a finalized    *)
(* record, and a blob offset of the header is non-zero only while the      *)
(* record is active.                                                       *)
C5_BlobsOnlyWhileActive ==
    /\ read_holder(tag) \in {"Holder", "Active", "Finalized"}
    /\ (executor_state_offset # 0 \/ evm_offset # 0) => read_holder(tag) = "Active"

\* A record that had its blobs allocated has been finalized.
C5_Witness ==
    /\ read_holder(tag) = "Finalized"
    /\ executor_state_offset = 0 /\ evm_offset = 0
    /\ Len(actions) > 0
    /\ applied = 1


(* C13: a continue that restarts (forced, or after NeedRestart) allocates  *)
(* fresh blobs: the action list holds only what this call recorded, the    *)
(* stack is empty and an exit status is one this call reached, while the   *)
(* cached block number and timestamp are those of the executor state it    *)
(* replaced; a continue that does not restart keeps the action list and    *)
(* the cache of the existing instance.                                     *)
C13_RestartKeepsBlockParams ==
    [][(op' = "continue" /\ err' = "Ok")
       => IF hist'.reset
          THEN /\ actions' = run(<<>>, evm_pc')
               /\ stack' = <<>>
               /\ exit_status' # "None" => evm_pc' = ProgramLen
               /\ cache'.block_number = cache.block_number
               /\ cache'.block_timestamp = cache.block_timestamp
          ELSE /\ SubSeq(actions', 1, Len(actions)) = actions
               /\ cache' = cache]_vars


\* The virtual steps the latest continue ran, seen across its transition.
StepsOfCall == evm_pc' - (IF hist'.reset THEN 0 ELSE evm_pc)

(* C14: a restart gives no gas back: allocating the blobs anew leaves the  *)
(* record's gas_used and the operator's tokens as they are, and over the   *)
(* steps of the transaction, restarts included, gas_used and the tokens    *)
(* minted to the operator never decrease.                                  *)
C14_RestartKeepsGas ==
    /\ [](\A block \in 0..MaxBlock :
            LET s == allocate_or_reinit_state(Here, TRUE, block) IN
            s.gas_used = gas_used /\ s.operator_balance = operator_balance)
    /\ [][/\ gas_used' >= gas_used
          /\ \A c \in ChainIds : operator_balance'[c] >= operator_balance[c]]_vars

\* A continue restarted after a touched account had changed, with gas
\* charged and tokens minted on earlier steps.
C14_Witness ==
    /\ op = "continue" /\ hist.reset /\ hist.status = "NeedRestart"
    /\ read_holder(tag) = "Active"
    /\ gas_used > 0
    /\ steps_executed < gas_used
    /\ \E c \in ChainIds : operator_balance[c] > 0

(* C15 as stated: after a continue that restarted because a touched        *)
(* account had changed, steps_executed holds the steps counted before the  *)
(* restart and the steps run after it, each once.                          *)
C15_Original ==
    [][(op' = "continue" /\ hist'.status = "NeedRestart")
       => steps_executed' = steps_executed + StepsOfCall]_vars

(* C15, amended: a continue that restarts sets steps_executed to zero and  *)
(* counts the steps the rebuilt instance runs, each once: after the call   *)
(* steps_executed is the number of steps run in that call, the steps       *)
(* counted before the restart are dropped; a continue that does not        *)
(* restart adds the steps it ran to the count.                             *)
C15_RestartCountsAnew ==
    [][op' = "continue"
       => /\ steps_executed' = (IF hist'.reset THEN 0 ELSE steps_executed)
                               + StepsOfCall
          /\ hist'.reset => steps_executed' = Min(arg', ProgramLen)
          /\ steps_executed' = evm_pc']_vars

\* A continue restarted after a mutation when steps had been counted, and
\* ran fewer steps than had been counted.
C15_Witness ==
    /\ op = "continue" /\ hist.status = "NeedRestart" /\ hist.reset
    /\ steps_executed = 1
    /\ evm_pc = 1
    /\ accounts[1].data # 0

(* C16: a continue that reaches a terminal exit after more than            *)
(* EVM_STEPS_LAST_ITERATION_MAX virtual steps in that call has its result  *)
(* discarded: nothing is applied, nothing is refunded and the record stays *)
(* active.                                                                 *)
C16_LongLastIterationDiscarded ==
    [][(op' = "continue" /\ exit_status' # "None"
        /\ StepsOfCall > EVM_STEPS_LAST_ITERATION_MAX)
       => /\ hist'.results = "None"
          /\ applied' = applied
          /\ origin_balance' = origin_balance
          /\ hist'.refunds = hist.refunds
          /\ read_holder(tag') = "Active"]_vars

\* A continue reached the exit in a long iteration and the record is active
\* with the exit status stored.
C16_Witness ==
    /\ op = "continue"
    /\ exit_status = "Stop"
    /\ hist.results = "None"
    /\ arg > EVM_STEPS_LAST_ITERATION_MAX
    /\ read_holder(tag) = "Active"
    /\ applied = 0

(* C17: on an active record a continue whose step budget is below          *)
(* EVM_STEPS_MIN, for a transaction with a gas price above zero, fails     *)
(* whatever its other inputs, with nothing allocated, run or charged; a    *)
(* continue that is charged no gas is rejected on this ground in no other  *)
(* case, restarting or not, whatever allocate returns, so a transaction of *)
(* gas price 0 is accepted with any budget.                                *)
C17_MinimumSteps ==
    /\ [](read_holder(tag) = "Active" /\ trx.gas_price > 0
            => \A i \in ContinueInputs :
                i.step_count < EVM_STEPS_MIN
                => \A s \in {continue_step(i.step_count, i.force, i.block,
                                            i.alloc, i.used_gas, i.receiver)} :
                       /\ s.err = "StepLimitBelowMinimum"
                       /\ s.gas_used = gas_used
                       /\ s.steps_executed = steps_executed
                       /\ s.evm_pc = evm_pc
                       /\ s.actions = actions
                       /\ s.evm_offset = evm_offset
                       /\ s.operator_balance = operator_balance)
    /\ [](read_holder(tag) = "Active"
            => \A step_count \in 1..MaxStepCount, force \in BOOLEAN,
                  alloc \in AllocateResults :
                step_count >= EVM_STEPS_MIN \/ trx.gas_price = 0
                => continue_step(step_count, force, cache.block_number, alloc,
                                 0, "None").err # "StepLimitBelowMinimum")
    /\ [][(op' = "continue" /\ trx.gas_price > 0) => arg' >= EVM_STEPS_MIN]_vars

\* A transaction of gas price 0 went on with a budget below the minimum.
C17_Witness ==
    /\ op = "continue"
    /\ trx.gas_price = 0
    /\ arg < EVM_STEPS_MIN
    /\ evm_pc > 0
    /\ read_holder(tag) = "Active"


\* The tokens of all operator balances.
OperatorTokens(balances) == balances[DEFAULT_CHAIN_ID] + balances["other"]

(* C18: the step that finalizes the transaction mints to the origin        *)
(* (gas_limit - gas_used) * gas_price tokens, gas_used being the           *)
(* cumulative usage after the charge of that step, and leaves gas_used at  *)
(* the limit; refund_unused_gas panics on its assertions, minting nothing, *)
(* for a balance account of another chain or another address.              *)
C18_RefundExact ==
    /\ [][(read_holder(tag) = "Active" /\ read_holder(tag') = "Finalized")
            => /\ (origin_balance' - origin_balance)
                    + (OperatorTokens(operator_balance')
                       - OperatorTokens(operator_balance))
                  = (trx.gas_limit - gas_used) * trx.gas_price
               /\ trx.gas_price > 0
                    => (origin_balance' - origin_balance)
                       = (trx.gas_limit
                          - (gas_used
                             + (OperatorTokens(operator_balance')
                                - OperatorTokens(operator_balance))
                               \div trx.gas_price)) * trx.gas_price
               /\ gas_used' = trx.gas_limit
               /\ hist'.refunds = hist.refunds + 1]_vars
    /\ [](\A o \in Origins :
            LET r == refund_unused_gas(trx, gas_used, origin_balance, o) IN
            (o # accounts_origin(trx))
                <=> (r.err = PanicAssert /\ r.balance = origin_balance
                     /\ r.gas_used = gas_used))

\* A transaction with a gas price was finalized with gas left over and
\* refunded, after more than one step had been charged.
C18_Witness ==
    /\ read_holder(tag) = "Finalized"
    /\ trx.gas_price > 0
    /\ origin_balance > 0
    /\ \E c \in ChainIds : operator_balance[c] > 1
    /\ hist.refunds = 1

\* C20: StateAccount::new succeeds exactly on a holder that passes
\* validate_owner for the operator and on a finalized record that passes
\* validate_owner for the operator and validate_trx for the transaction; on
\* an Active record it fails with AccountInvalidTag whoever asks, the
\* instruction writes nothing, and no begin ever takes effect over an Active
\* record.  On success the record is Active with both offsets 0, gas_used 0,
\* steps_executed 0, an empty touched map and one fingerprint for every
\* account in scope.
C20_CreateOnlyOverIdle ==
    /\ [](\A owner_ok \in BOOLEAN, trx_ok \in BOOLEAN :
            LET n == new(tag, owner_ok, trx_ok, trx, accounts) IN
            /\ n.err = "Ok" <=> /\ owner_ok
                                /\ \/ tag = TAG_HOLDER
                                   \/ tag = TAG_STATE_FINALIZED /\ trx_ok
            /\ tag \notin {TAG_HOLDER, TAG_STATE_FINALIZED}
                    => n.err = "AccountInvalidTag"
            /\ n.err = "Ok"
                    => /\ n.tag = TAG_STATE
                       /\ n.executor_state_offset = 0 /\ n.evm_offset = 0
                       /\ n.gas_used = 0 /\ n.steps_executed = 0
                       /\ \A k \in Keys : n.touched_accounts[k] = 0
                       /\ DOMAIN n.revisions = Keys
                       /\ \A k \in Keys :
                              n.revisions[k] = AccountRevision(accounts[k])
            /\ n.err # "Ok"
                    => \A used_gas \in 0..MaxAmount, receiver \in Receivers :
                          begin_step(owner_ok, trx_ok, 0, used_gas, receiver)
                              = Fail(Here, n.err))
    /\ [][tag = TAG_STATE => op' # "begin"]_vars

\* An Active record in flight, with gas charged, accounts touched and the
\* executor state allocated: a create on it is refused.
C20_Witness ==
    /\ tag = TAG_STATE
    /\ op = "continue"
    /\ gas_used > 0
    /\ executor_state_offset # 0
    /\ \E k \in Keys : touched_accounts[k] > 0
    /\ \A owner_ok \in BOOLEAN, trx_ok \in BOOLEAN :
          new(tag, owner_ok, trx_ok, trx, accounts).err = "AccountInvalidTag"

\* The steps the program still needs in the continue just taken.
StepsNeeded == ProgramLen - (IF hist'.reset THEN 0 ELSE evm_pc)

\* The latest continue restarted because a touched account had changed.
NeedRestarted == op = "continue" /\ hist.status = "NeedRestart"

\* The latest continue had results and found no room to materialize them.
NoCapacity == op = "continue" /\ hist.allocate = "NeedMoreReallocations"

\* No weight of the touched map is at the end of its range, where the
\* checked_add of update_touched_accounts fails.
WeightsInRange == \A k \in Keys : touched_accounts[k] < MaxWeight

OneBlobPerKind(s) ==
    /\ s.heap.evm <= 1 /\ s.heap.executor_state <= 1
    /\ s.heap.evm = 0 <=> s.evm_offset = 0
    /\ s.heap.executor_state = 0 <=> s.executor_state_offset = 0

(* C21: whenever the record holds one blob of each kind at most, it does   *)
(* so again after the blobs are allocated anew, as a forced continue does: *)
(* the allocation releases the blob it finds before it allocates, a header *)
(* offset is zero exactly when no blob of the kind is allocated, and a     *)
(* release on a zero offset does not happen (it fails an assertion).       *)
C21_OneBlobPerKind ==
    OneBlobPerKind(Here)
    => /\ \A block \in 0..MaxBlock :
              OneBlobPerKind(allocate_or_reinit_state(Here, TRUE, block))
       /\ \A step_count \in 1..MaxStepCount :
              \A s \in {continue_step(step_count, TRUE, cache.block_number,
                                      "Ready", 0, "None")} :
                  s.err = "Ok" => OneBlobPerKind(s)
       /\ ~is_evm_alloced(Here) => dealloc_evm(Here).err = PanicAssert
       /\ ~is_executor_state_alloced(Here)
              => dealloc_executor_state(Here).err = PanicAssert

-----------------------------------------------------------------------------
(* SpecOverlay: the reads of ExecutorState (executor/state.rs) over the    *)
(* action list: storage, transient storage, contract code and the chain id *)
(* of a contract, each answered from the recorded actions before the       *)
(* backing account storage is asked.  The backing store is `accounts`.     *)

\* The contracts the calls name.
Addresses == {"a", "b"}
\* The storage slots read and written (an address and an index), and the
\* values written to them.
OverlaySlots == {1, 2}
OverlayValues == {1, 2}
\* The value every slot of the backing store holds where it holds one.
BackingValue == 3
\* The longest action list the reads are exercised over.
MaxOverlay == 2

\* The first byte set_code refuses (0xEF) and the longest code it accepts
\* (0x6000 bytes).
EOF_MAGIC == 239
CODE_SIZE_LIMIT == 24576

\* Contract code, by its first byte and its length; the first byte of the
\* empty code is written 0.
Code(first, len) == [first |-> first, len |-> len]
NoCode == Code(0, 0)
\* Vector::starts_with(&[byte])
starts_with(code, byte) == code.len > 0 /\ code.first = byte

\* The payloads set_code is called with.
Payloads ==
    {NoCode, Code(96, 1), Code(96, CODE_SIZE_LIMIT), Code(EOF_MAGIC, 1),
     Code(96, CODE_SIZE_LIMIT + 1), Code(EOF_MAGIC, CODE_SIZE_LIMIT + 1)}

\* Action::EvmSetTransientStorage { address, index, value }
EvmSetTransientStorage(index, value) ==
    [kind |-> "EvmSetTransientStorage", key |-> index, value |-> value]

\* Action::EvmSetCode { address, chain_id, code }
EvmSetCode(address, chain_id, code) ==
    [kind |-> "EvmSetCode", address |-> address, chain_id |-> chain_id,
     code |-> code]

\* The backing account storage: the value of every slot, the code and chain
\* id of every contract ("None": the account is no contract), and the
\* balance of every address per chain id.
Backends ==
    {[storage |-> [i \in OverlaySlots |-> 0],
      code |-> [a \in Addresses |-> NoCode],
      chain_id |-> [a \in Addresses |-> "None"],
      balance |-> [a \in Addresses |-> [c \in ChainIds |->
                      IF a = "b" THEN 0
                      ELSE IF c = DEFAULT_CHAIN_ID THEN 2 ELSE 1]]],
     [storage |-> [i \in OverlaySlots |-> BackingValue],
      code |-> [a \in Addresses |-> IF a = "a" THEN Code(96, 1) ELSE NoCode],
      chain_id |-> [a \in Addresses |->
                        IF a = "a" THEN DEFAULT_CHAIN_ID ELSE "None"],
      balance |-> [a \in Addresses |-> [c \in ChainIds |->
                      IF a = "a" THEN 1 ELSE 2]]]}

\* Database::storage: the action list is searched from its end.
RECURSIVE storage(_, _, _)
storage(acts, backend, index) ==
    IF acts = <<>> THEN backend.storage[index]
    ELSE IF Last(acts).kind = "EvmSetStorage" /\ Last(acts).key = index
    THEN Last(acts).value
    ELSE storage(Front(acts), backend, index)

\* Database::transient_storage: searched from the end, zero when not written.
RECURSIVE transient_storage(_, _)
transient_storage(acts, index) ==
    IF acts = <<>> THEN 0
    ELSE IF Last(acts).kind = "EvmSetTransientStorage" /\ Last(acts).key = index
    THEN Last(acts).value
    ELSE transient_storage(Front(acts), index)

\* Database::code: the action list is searched from its start.
RECURSIVE code(_, _, _)
code(acts, backend, from_address) ==
    IF acts = <<>> THEN backend.code[from_address]
    ELSE IF Head(acts).kind = "EvmSetCode" /\ Head(acts).address = from_address
    THEN Head(acts).code
    ELSE code(Tail(acts), backend, from_address)

\* Database::code_size: the action list is searched from its start.
RECURSIVE code_size(_, _, _)
code_size(acts, backend, from_address) ==
    IF acts = <<>> THEN backend.code[from_address].len
    ELSE IF Head(acts).kind = "EvmSetCode" /\ Head(acts).address = from_address
    THEN Head(acts).code.len
    ELSE code_size(Tail(acts), backend, from_address)

\* Database::contract_chain_id: searched from the end; the backing store
\* answers with an error ("None") for an account that is no contract.
RECURSIVE contract_chain_id(_, _, _)
contract_chain_id(acts, backend, contract) ==
    IF acts = <<>> THEN backend.chain_id[contract]
    ELSE IF Last(acts).kind = "EvmSetCode" /\ Last(acts).address = contract
    THEN Last(acts).chain_id
    ELSE contract_chain_id(Front(acts), backend, contract)

\* Database::set_code with a slip: code of exactly the limit is refused.
set_code_short(acts, address, chain_id, new_code) ==
    IF starts_with(new_code, EOF_MAGIC)
    THEN [err |-> "EVMObjectFormatNotSupported", actions |-> acts]
    ELSE IF new_code.len >= CODE_SIZE_LIMIT
    THEN [err |-> "ContractCodeSizeLimit", actions |-> acts]
    ELSE [err |-> "Ok",
          actions |-> Append(acts, EvmSetCode(address, chain_id, new_code))]

\* Database::set_code
set_code(acts, address, chain_id, new_code) ==
    IF starts_with(new_code, EOF_MAGIC)
    THEN [err |-> "EVMObjectFormatNotSupported", actions |-> acts]
    ELSE IF new_code.len > CODE_SIZE_LIMIT
    THEN [err |-> "ContractCodeSizeLimit", actions |-> acts]
    ELSE [err |-> "Ok",
          actions |-> Append(acts, EvmSetCode(address, chain_id, new_code))]

InitOverlay ==
    /\ tag = TAG_STATE
    /\ trx = [gas_limit |-> 1, gas_price |-> 0, chain_id |-> "None", nonce |-> 0]
    /\ gas_used = 0
    /\ RecordIdle
    /\ actions = <<>>
    /\ stack = <<>>
    /\ exit_status = "None"
    /\ cache = NoCache
    /\ touched = NoTouched
    /\ evm_pc = 0
    /\ accounts \in Backends
    /\ operator_balance = [c \in ChainIds |-> 0]
    /\ origin_balance = 0
    /\ origin_nonce = 0
    /\ applied = 0
    /\ CallIdle
    /\ hist = <<>>

\* What a call on the overlay leaves alone.
OverlayKeeps ==
    UNCHANGED <<recordVars, exit_status, cache, touched, evm_pc, durableVars,
                arg, hist>>

\* Database::set_storage
OverlaySetStorage ==
    /\ Len(actions) < MaxOverlay
    /\ \E index \in OverlaySlots, value \in OverlayValues :
        actions' = Append(actions, EvmSetStorage(index, value))
    /\ op' = "set_storage"
    /\ err' = "Ok"
    /\ UNCHANGED stack
    /\ OverlayKeeps

\* Database::set_transient_storage
OverlaySetTransientStorage ==
    /\ Len(actions) < MaxOverlay
    /\ \E index \in OverlaySlots, value \in OverlayValues :
        actions' = Append(actions, EvmSetTransientStorage(index, value))
    /\ op' = "set_transient_storage"
    /\ err' = "Ok"
    /\ UNCHANGED stack
    /\ OverlayKeeps

\* Database::set_code
OverlaySetCode ==
    /\ Len(actions) < MaxOverlay
    /\ \E address \in Addresses, chain_id \in ChainIds, new_code \in Payloads :
        LET r == set_code(actions, address, chain_id, new_code) IN
        /\ actions' = r.actions
        /\ err' = r.err
    /\ op' = "set_code"
    /\ UNCHANGED stack
    /\ OverlayKeeps

\* Database::snapshot
OverlaySnapshot ==
    /\ Len(stack) < MaxDepth
    /\ stack' = snapshot(actions, stack)
    /\ op' = "snapshot"
    /\ err' = "Ok"
    /\ UNCHANGED actions
    /\ OverlayKeeps

\* Database::commit_snapshot; a panic aborts the host transaction.
OverlayCommitSnapshot ==
    /\ commit_snapshot(stack).err = "Ok"
    /\ stack' = commit_snapshot(stack).stack
    /\ op' = "commit_snapshot"
    /\ err' = "Ok"
    /\ UNCHANGED actions
    /\ OverlayKeeps

\* Database::revert_snapshot; a panic aborts the host transaction.
OverlayRevertSnapshot ==
    /\ LET r == revert_snapshot(actions, stack, cache) IN
        /\ r.err = "Ok"
        /\ actions' = r.actions
        /\ stack' = r.stack
    /\ op' = "revert_snapshot"
    /\ err' = "Ok"
    /\ OverlayKeeps

NextOverlay ==
    \/ OverlaySetStorage
    \/ OverlaySetTransientStorage
    \/ OverlaySetCode
    \/ OverlaySnapshot
    \/ OverlayCommitSnapshot
    \/ OverlayRevertSnapshot

SpecOverlay == InitOverlay /\ [][NextOverlay]_vars

\* The positions of the recorded actions of one kind for one key.
Writes(acts, kind, field, key) ==
    {i \in 1..Len(acts) : acts[i].kind = kind /\ acts[i][field] = key}
\* The most recently recorded of them.
Newest(acts, kind, field, key) ==
    acts[CHOOSE i \in Writes(acts, kind, field, key) :
             \A j \in Writes(acts, kind, field, key) : j <= i]

\* C22: every read on the overlay returns the value of the most recently
\* recorded action for its key, and the backing value (zero for transient
\* storage) only when no action for the key is recorded.
C22_LastWriteWins ==
    /\ \A index \in OverlaySlots :
        /\ storage(actions, accounts, index) =
              IF Writes(actions, "EvmSetStorage", "key", index) = {}
              THEN accounts.storage[index]
              ELSE Newest(actions, "EvmSetStorage", "key", index).value
        /\ transient_storage(actions, index) =
              IF Writes(actions, "EvmSetTransientStorage", "key", index) = {}
              THEN 0
              ELSE Newest(actions, "EvmSetTransientStorage", "key", index).value
    /\ \A address \in Addresses :
        LET none == Writes(actions, "EvmSetCode", "address", address) = {}
            newest == Newest(actions, "EvmSetCode", "address", address)
        IN /\ contract_chain_id(actions, accounts, address) =
                 IF none THEN accounts.chain_id[address] ELSE newest.chain_id
           /\ code(actions, accounts, address) =
                 IF none THEN accounts.code[address] ELSE newest.code
           /\ code_size(actions, accounts, address) =
                 IF none THEN accounts.code[address].len ELSE newest.code.len

\* C25: set_code refuses a payload whose first byte is 0xEF and a payload
\* longer than 0x6000 bytes, and appends nothing then; every other payload,
\* the empty one and one of exactly 0x6000 bytes included, appends exactly
\* one code-install action holding the payload.
C25_SetCodeLimits ==
    /\ [](\A address \in Addresses, chain_id \in ChainIds, new_code \in Payloads :
            \A r \in {set_code(actions, address, chain_id, new_code)} :
                IF new_code.len > 0 /\ new_code.first = EOF_MAGIC
                THEN r.err = "EVMObjectFormatNotSupported" /\ r.actions = actions
                ELSE IF new_code.len > CODE_SIZE_LIMIT
                THEN r.err = "ContractCodeSizeLimit" /\ r.actions = actions
                ELSE /\ r.err = "Ok"
                     /\ Len(r.actions) = Len(actions) + 1
                     /\ Front(r.actions) = actions
                     /\ Last(r.actions) = EvmSetCode(address, chain_id, new_code))
    /\ [][op' = "set_code" =>
            IF err' = "Ok"
            THEN /\ Len(actions') = Len(actions) + 1
                 /\ Front(actions') = actions
                 /\ Last(actions').kind = "EvmSetCode"
                 /\ Last(actions').code.len <= CODE_SIZE_LIMIT
                 /\ ~starts_with(Last(actions').code, EOF_MAGIC)
            ELSE actions' = actions]_vars

\* A payload of exactly 0x6000 bytes has been installed.
C25_Witness ==
    /\ op = "set_code"
    /\ err = "Ok"
    /\ actions # <<>>
    /\ Last(actions).kind = "EvmSetCode"
    /\ Last(actions).code.len = CODE_SIZE_LIMIT

-----------------------------------------------------------------------------
(* SpecBalance: transfers and burns recorded on the action list, and the   *)
(* balance folded from them (executor/state.rs).  The calls are followed   *)
(* by what they do to the action list; the weights they add to the touched *)
(* accounts are the subject of SpecLog and are left as they are here.      *)

\* The values transferred and burnt.
TransferValues == {0, 1, 2}

\* Action::Transfer { source, target, chain_id, value }
Transfer(source, target, chain_id, value) ==
    [kind |-> "Transfer", source |-> source, target |-> target,
     chain_id |-> chain_id, value |-> value]

\* Action::Burn { source, chain_id, value }
Burn(source, chain_id, value) ==
    [kind |-> "Burn", source |-> source, chain_id |-> chain_id,
     value |-> value]

\* U256::checked_sub and U256::checked_add on a balance being folded.
checked_sub(b, value) ==
    IF b.err # "Ok" THEN b
    ELSE IF b.value < value THEN [err |-> "IntegerOverflow", value |-> b.value]
    ELSE [err |-> "Ok", value |-> b.value - value]
checked_add(b, value) ==
    IF b.err # "Ok" THEN b
    ELSE IF b.value + value > MaxU256
    THEN [err |-> "IntegerOverflow", value |-> b.value]
    ELSE [err |-> "Ok", value |-> b.value + value]

\* The loop of balance_internal: the actions are folded from the oldest on,
\* and the first failed subtraction or addition ends the fold.
RECURSIVE fold_balance(_, _, _, _)
fold_balance(acts, b, from_address, from_chain_id) ==
    IF acts = <<>> \/ b.err # "Ok" THEN b
    ELSE LET action == Head(acts)
             next ==
                 IF action.kind = "Transfer" /\ action.chain_id = from_chain_id
                 THEN LET sub == IF from_address = action.source
                                 THEN checked_sub(b, action.value) ELSE b
                      IN IF from_address = action.target
                         THEN checked_add(sub, action.value) ELSE sub
                 ELSE IF /\ action.kind = "Burn"
                         /\ action.chain_id = from_chain_id
                         /\ action.source = from_address
                 THEN checked_sub(b, action.value)
                 ELSE b
         IN fold_balance(Tail(acts), next, from_address, from_chain_id)

\* ExecutorState::balance_internal
balance_internal(acts, backend, from_address, from_chain_id) ==
    fold_balance(acts, [err |-> "Ok",
                        value |-> backend.balance[from_address][from_chain_id]],
                 from_address, from_chain_id)

\* Database::transfer
transfer(acts, backend, source, target, chain_id, value) ==
    IF value = 0 THEN [err |-> "Ok", actions |-> acts]
    ELSE LET found == contract_chain_id(acts, backend, target)
             target_chain_id == IF found = "None" THEN chain_id ELSE found
             balance == balance_internal(acts, backend, source, chain_id)
         IN IF code_size(acts, backend, target) > 0 /\ target_chain_id # chain_id
            THEN [err |-> "InvalidTransferToken", actions |-> acts]
            ELSE IF source = target THEN [err |-> "Ok", actions |-> acts]
            ELSE IF balance.err # "Ok"
            THEN [err |-> balance.err, actions |-> acts]
            ELSE IF balance.value < value
            THEN [err |-> "InsufficientBalance", actions |-> acts]
            ELSE [err |-> "Ok",
                  actions |-> Append(acts, Transfer(source, target, chain_id,
                                                    value))]

\* Database::burn
burn(acts, backend, source, chain_id, value) ==
    LET balance == balance_internal(acts, backend, source, chain_id) IN
    IF balance.err # "Ok" THEN [err |-> balance.err, actions |-> acts]
    ELSE IF balance.value < value
    THEN [err |-> "InsufficientBalance", actions |-> acts]
    ELSE [err |-> "Ok", actions |-> Append(acts, Burn(source, chain_id, value))]

\* Database::transfer
BalanceTransfer ==
    /\ Len(actions) < MaxOverlay
    /\ \E source \in Addresses, target \in Addresses, chain_id \in ChainIds,
          value \in TransferValues :
        LET r == transfer(actions, accounts, source, target, chain_id, value) IN
        /\ actions' = r.actions
        /\ err' = r.err
    /\ op' = "transfer"
    /\ UNCHANGED stack
    /\ OverlayKeeps

\* Database::burn
BalanceBurn ==
    /\ Len(actions) < MaxOverlay
    /\ \E chain_id \in ChainIds, value \in TransferValues \ {0} :
        LET r == burn(actions, accounts, "a", chain_id, value) IN
        /\ actions' = r.actions
        /\ err' = r.err
    /\ op' = "burn"
    /\ UNCHANGED stack
    /\ OverlayKeeps

\* Database::set_code, on the contract the transfers go to.
BalanceSetCode ==
    /\ Len(actions) < MaxOverlay
    /\ \E chain_id \in ChainIds, new_code \in {NoCode, Code(96, 1)} :
        LET r == set_code(actions, "b", chain_id, new_code) IN
        /\ actions' = r.actions
        /\ err' = r.err
    /\ op' = "set_code"
    /\ UNCHANGED stack
    /\ OverlayKeeps

NextBalance ==
    \/ BalanceTransfer
    \/ BalanceBurn
    \/ BalanceSetCode
    \/ OverlaySnapshot
    \/ OverlayCommitSnapshot
    \/ OverlayRevertSnapshot

SpecBalance == InitOverlay /\ [][NextBalance]_vars

\* C23: transfer and burn fail with InsufficientBalance and record no
\* action whenever the balance of the source, folded from the backing
\* balance and the recorded transfers and burns of the chain id, is below
\* the value; the folded balance of every address is never negative and
\* folding it never fails.
C23_NoOverdraft ==
    /\ \A source \in Addresses, chain_id \in ChainIds, value \in TransferValues :
        balance_internal(actions, accounts, source, chain_id).value < value =>
            /\ \A target \in Addresses :
                \A r \in {transfer(actions, accounts, source, target, chain_id,
                                   value)} :
                    r.err = "InsufficientBalance" /\ r.actions = actions
            /\ \A r \in {burn(actions, accounts, source, chain_id, value)} :
                r.err = "InsufficientBalance" /\ r.actions = actions
    /\ \A address \in Addresses, chain_id \in ChainIds :
        \A b \in {balance_internal(actions, accounts, address, chain_id)} :
            b.err = "Ok" /\ b.value >= 0

\* The address has code: the code installed by the most recently recorded
\* code-install action for it, or the backing code when there is none.
HasCode(acts, backend, address) ==
    IF Writes(acts, "EvmSetCode", "address", address) = {}
    THEN backend.code[address].len > 0
    ELSE Newest(acts, "EvmSetCode", "address", address).code.len > 0

\* C24: a transfer of a non-zero value to an address that has code and
\* whose contract chain id differs from the chain id of the transfer fails
\* with InvalidTransferToken and records no action; a transfer to an
\* address without code is never refused for its chain id.
C24_TransferToken ==
    \A source \in Addresses, target \in Addresses, chain_id \in ChainIds,
       value \in TransferValues \ {0} :
        \A r \in {transfer(actions, accounts, source, target, chain_id, value)} :
            /\ (/\ HasCode(actions, accounts, target)
                /\ contract_chain_id(actions, accounts, target) # chain_id)
                   => r.err = "InvalidTransferToken" /\ r.actions = actions
            /\ ~HasCode(actions, accounts, target)
                   => r.err # "InvalidTransferToken"

-----------------------------------------------------------------------------
(* SpecFee: the priority fee of one step (priority_fee_txn_calculator.rs), *)
(* computed from the transaction and from the Compute Budget instructions  *)
(* found among the sibling instructions of the host transaction.  The      *)
(* inputs of a call are held in hist, its result in err, arg and           *)
(* hist.reads.                                                             *)

\* The largest max_fee_per_gas and max_priority_fee_per_gas of a transaction.
MaxFee == 3
\* The largest total of gas used over the steps of a transaction.
MaxTotalGas == 4
\* The most sibling instructions the host transaction holds.
MaxSiblings == 2
\* u64::MAX, scaled down so that cu_price * cu_limit can overflow.
MaxU64 == 6
\* DEFAULT_COMPUTE_UNIT_LIMIT, MICRO_LAMPORTS, LAMPORTS_PER_SIGNATURE and
\* PAYMENT_TO_TREASURE, scaled down.
DEFAULT_COMPUTE_UNIT_LIMIT == 2
MICRO_LAMPORTS == 2
LAMPORTS_PER_SIGNATURE == 1
PAYMENT_TO_TREASURE == 1
\* const MAX_GAS of calc_priority_fee
MAX_GAS == LAMPORTS_PER_SIGNATURE + PAYMENT_TO_TREASURE
\* The number of sibling instructions get_compute_budget_priority_fee looks at.
max_idx == 5

\* An Option that is None, and instruction data that is not of the width
\* read, among numbers.
None == 0 - 1
Malformed == 0 - 2

COMPUTE_BUDGET_ADDRESS == "ComputeBudget"
COMPUTE_UNIT_LIMIT_TAG == "SetComputeUnitLimit"
COMPUTE_UNIT_PRICE_TAG == "SetComputeUnitPrice"

\* The payloads that carry max_fee_per_gas and max_priority_fee_per_gas.
PriorityPayloads == {"DynamicFee", "Scheduled"}
\* The transactions of a call: the payloads without the two fields hold
\* None for them.
FeeTransactions ==
    [gas_limit : {1}, gas_price : {0}, chain_id : {"None"}, nonce : {0},
     payload : {"Legacy", "AccessList"},
     max_fee_per_gas : {None}, max_priority_fee_per_gas : {None}]
    \cup
    [gas_limit : {1}, gas_price : {0}, chain_id : {"None"}, nonce : {0},
     payload : PriorityPayloads,
     max_fee_per_gas : 0..MaxFee, max_priority_fee_per_gas : 0..MaxFee]

\* Transaction::max_priority_fee_per_gas().unwrap_or_default()
max_priority_fee_per_gas(txn) ==
    IF txn.max_priority_fee_per_gas = None THEN 0
    ELSE txn.max_priority_fee_per_gas

\* A sibling instruction: its program, the first byte of its data and the
\* number the rest of the data holds.
Instruction(program_id, ixn_tag, value) ==
    [program_id |-> program_id, tag |-> ixn_tag, value |-> value]
SiblingInstructions ==
    {Instruction("other", "none", 0),
     Instruction(COMPUTE_BUDGET_ADDRESS, COMPUTE_UNIT_LIMIT_TAG, 3),
     Instruction(COMPUTE_BUDGET_ADDRESS, COMPUTE_UNIT_PRICE_TAG, 1),
     Instruction(COMPUTE_BUDGET_ADDRESS, COMPUTE_UNIT_PRICE_TAG, MaxU64),
     Instruction(COMPUTE_BUDGET_ADDRESS, COMPUTE_UNIT_PRICE_TAG, Malformed)}
SiblingLists ==
    UNION {[1..n -> SiblingInstructions] : n \in 0..MaxSiblings}

\* The loop of get_compute_budget_priority_fee from index idx on; reads
\* counts the calls of get_processed_sibling_instruction.
RECURSIVE compute_budget_loop(_, _, _, _, _)
compute_budget_loop(ixns, idx, compute_unit_limit, compute_unit_price, reads) ==
    IF ~(/\ compute_unit_limit = None \/ compute_unit_price = None
         /\ idx < max_idx)
    THEN [err |-> "Ok", cu_limit |-> compute_unit_limit,
          cu_price |-> compute_unit_price, reads |-> reads]
    ELSE IF idx >= Len(ixns)
    THEN [err |-> "Ok", cu_limit |-> compute_unit_limit,
          cu_price |-> compute_unit_price, reads |-> reads + 1]
    ELSE LET cur_ixn == ixns[idx + 1] IN
         IF cur_ixn.program_id # COMPUTE_BUDGET_ADDRESS
         THEN compute_budget_loop(ixns, idx + 1, compute_unit_limit,
                                  compute_unit_price, reads + 1)
         ELSE IF cur_ixn.tag \in {COMPUTE_UNIT_LIMIT_TAG, COMPUTE_UNIT_PRICE_TAG}
                 /\ cur_ixn.value = Malformed
         THEN [err |-> "PriorityFeeParsingError", cu_limit |-> compute_unit_limit,
               cu_price |-> compute_unit_price, reads |-> reads + 1]
         ELSE compute_budget_loop(ixns, idx + 1,
                  IF cur_ixn.tag = COMPUTE_UNIT_LIMIT_TAG
                  THEN cur_ixn.value ELSE compute_unit_limit,
                  IF cur_ixn.tag = COMPUTE_UNIT_PRICE_TAG
                  THEN cur_ixn.value ELSE compute_unit_price,
                  reads + 1)

\* get_compute_budget_priority_fee with a slip: a missing limit stays
\* missing.
get_compute_budget_priority_fee_no_default(ixns) ==
    LET found == compute_budget_loop(ixns, 0, None, None, 0) IN
    IF found.err # "Ok" THEN found
    ELSE IF found.cu_price = None
    THEN [found EXCEPT !.err = "PriorityFeeNotSpecified"]
    ELSE found

\* get_compute_budget_priority_fee
get_compute_budget_priority_fee(ixns) ==
    LET found == compute_budget_loop(ixns, 0, None, None, 0) IN
    IF found.err # "Ok" THEN found
    ELSE IF found.cu_price = None
    THEN [found EXCEPT !.err = "PriorityFeeNotSpecified"]
    ELSE IF found.cu_limit = None
    THEN [found EXCEPT !.cu_limit = DEFAULT_COMPUTE_UNIT_LIMIT]
    ELSE found

\* What calc_priority_fee returns: the fee, and the sibling instructions read.
FeeResult(e, value, reads) == [err |-> e, value |-> value, reads |-> reads]

\* calc_priority_fee with a slip: the fee-market side channel is read before
\* the transaction is looked at.
calc_priority_fee_reads_first(txn, ixns) ==
    LET budget == get_compute_budget_priority_fee(ixns) IN
    IF txn.payload \notin PriorityPayloads THEN FeeResult("Ok", 0, budget.reads)
    ELSE IF txn.max_priority_fee_per_gas > txn.max_fee_per_gas
    THEN FeeResult("PriorityFeeError", 0, budget.reads)
    ELSE FeeResult("Ok", 0, budget.reads)

\* calc_priority_fee
calc_priority_fee(txn, ixns) ==
    IF txn.payload \notin PriorityPayloads THEN FeeResult("Ok", 0, 0)
    ELSE LET max_fee == txn.max_fee_per_gas
             max_priority_fee == txn.max_priority_fee_per_gas
         IN
         IF max_priority_fee > max_fee THEN FeeResult("PriorityFeeError", 0, 0)
         ELSE IF max_fee = max_priority_fee THEN FeeResult("Ok", 0, 0)
         ELSE IF max_priority_fee = 0 THEN FeeResult("Ok", 0, 0)
         ELSE LET budget == get_compute_budget_priority_fee(ixns) IN
              IF budget.err # "Ok" THEN FeeResult(budget.err, 0, budget.reads)
              ELSE IF budget.cu_price * budget.cu_limit > MaxU64
              THEN FeeResult("PriorityFeeError", 0, budget.reads)
              ELSE LET priority_gas_in_microlamports ==
                           budget.cu_price * budget.cu_limit
                       base_fee_per_gas == max_fee - max_priority_fee
                   IN
                   IF base_fee_per_gas * priority_gas_in_microlamports > MaxU256
                   THEN FeeResult("PriorityFeeError", 0, budget.reads)
                   ELSE FeeResult("Ok",
                            Min((base_fee_per_gas * priority_gas_in_microlamports)
                                    \div MICRO_LAMPORTS,
                                Min(max_priority_fee * MAX_GAS, MaxU256)),
                            budget.reads)

\* handle_priority_fee
handle_priority_fee(txn, ixns) == calc_priority_fee(txn, ixns)

\* finalize_priority_fee; a remainder by zero panics.
finalize_priority_fee(txn, ixns, total_gas_used, total_priority_fee_used) ==
    LET fee == calc_priority_fee(txn, ixns)
        total == saturating_add(total_priority_fee_used, fee.value)
        max_priority_fee ==
            Min(max_priority_fee_per_gas(txn) * total_gas_used, MaxU256)
        total_priority_fee_rest == saturating_sub(max_priority_fee, total)
    IN
    IF fee.err # "Ok" THEN fee
    ELSE IF total = 0 THEN FeeResult("Ok", 0, fee.reads)
    ELSE IF total_gas_used = 0 THEN FeeResult("panic", 0, fee.reads)
    ELSE FeeResult("Ok",
             saturating_add(fee.value, total_priority_fee_rest % total_gas_used),
             fee.reads)

\* The gas the gasometer reports for one step, in the units MAX_GAS is
\* made of: the signature of the host transaction, and the payment to the
\* treasury that finalize makes for a step that ran the interpreter.
StepGas == LAMPORTS_PER_SIGNATURE..MAX_GAS

\* The record's cumulative priority fee after a step has been charged
\* (StateAccount::priority_fee_in_tokens_used, written by consume_gas).
add_priority_fee(used, fee) == used + fee

\* Nothing charged yet: the sibling instructions of the last call and how
\* many of them it read, the gasometer's total and the record's cumulative
\* priority fee.
NoFeeCall == [siblings |-> 0, reads |-> 0, total_gas_used |-> 0,
              priority_fee_used |-> 0]

InitFee ==
    /\ tag = TAG_STATE
    /\ trx \in FeeTransactions
    /\ gas_used = 0
    /\ RecordIdle
    /\ BlobIdle
    /\ DurableIdle
    /\ CallIdle
    /\ hist = NoFeeCall

\* A failed fee calculation aborts the host transaction: the totals stay.
FeeCharged(r, ixns, total_used_gas) ==
    /\ err' = r.err
    /\ arg' = r.value
    /\ hist' = IF r.err = "Ok"
               THEN [siblings |-> Len(ixns), reads |-> r.reads,
                     total_gas_used |-> total_used_gas,
                     priority_fee_used |->
                         add_priority_fee(hist.priority_fee_used, r.value)]
               ELSE [hist EXCEPT !.siblings = Len(ixns), !.reads = r.reads]

\* A step that does not end the transaction (instruction_internals.rs
\* finalize, status None): handle_priority_fee.
HandlePriorityFee ==
    /\ tag = TAG_STATE
    /\ \E ixns \in SiblingLists, used_gas \in StepGas :
        /\ hist.total_gas_used + used_gas <= MaxTotalGas
        /\ FeeCharged(handle_priority_fee(trx, ixns), ixns,
                      hist.total_gas_used + used_gas)
    /\ op' = "handle_priority_fee"
    /\ UNCHANGED <<recordVars, blobVars, durableVars>>

\* The step that ends the transaction (status Some): finalize_priority_fee
\* with the totals of the gasometer and of the record; the record is
\* finalized when the step succeeds.
FinalizePriorityFee ==
    /\ tag = TAG_STATE
    /\ \E ixns \in SiblingLists, used_gas \in StepGas :
        /\ hist.total_gas_used + used_gas <= MaxTotalGas
        /\ \E r \in {finalize_priority_fee(trx, ixns,
                           hist.total_gas_used + used_gas,
                           hist.priority_fee_used)} :
              /\ FeeCharged(r, ixns, hist.total_gas_used + used_gas)
              /\ tag' = IF r.err = "Ok" THEN TAG_STATE_FINALIZED ELSE tag
    /\ op' = "finalize_priority_fee"
    /\ UNCHANGED <<trx, gas_used, steps_executed, revisions, touched_accounts,
                   executor_state_offset, evm_offset, blobVars, durableVars>>

NextFee == HandlePriorityFee \/ FinalizePriorityFee

SpecFee == InitFee /\ [][NextFee]_vars

\* C26: the priority-fee calculation returns an error whenever
\* max_priority_fee_per_gas exceeds max_fee_per_gas, and returns zero
\* without reading a sibling instruction for a transaction of a type without
\* priority pricing, and when max_priority_fee_per_gas is zero or equals
\* max_fee_per_gas.
C26_FeeValidation ==
    /\ \A ixns \in SiblingLists :
        \A r \in {calc_priority_fee(trx, ixns)} :
            IF trx.payload \notin PriorityPayloads
            THEN r = FeeResult("Ok", 0, 0)
            ELSE /\ trx.max_priority_fee_per_gas > trx.max_fee_per_gas
                        => r.err = "PriorityFeeError" /\ r.reads = 0
                 /\ (\/ trx.max_priority_fee_per_gas = 0
                     \/ trx.max_priority_fee_per_gas = trx.max_fee_per_gas)
                        => r = FeeResult("Ok", 0, 0)
    /\ op = "handle_priority_fee" =>
        /\ (/\ trx.payload \in PriorityPayloads
            /\ trx.max_priority_fee_per_gas > trx.max_fee_per_gas)
               => err = "PriorityFeeError" /\ hist.reads = 0
        /\ (\/ trx.payload \notin PriorityPayloads
            \/ trx.max_priority_fee_per_gas = 0
            \/ trx.max_priority_fee_per_gas = trx.max_fee_per_gas)
               => err = "Ok" /\ arg = 0 /\ hist.reads = 0

\* A priority fee above the fee cap has been refused, with sibling
\* instructions at hand.
C26_Witness ==
    /\ op = "handle_priority_fee"
    /\ trx.payload \in PriorityPayloads
    /\ trx.max_priority_fee_per_gas > trx.max_fee_per_gas
    /\ err = "PriorityFeeError"
    /\ hist.siblings > 0

\* C27: on the final step the fee returned by finalize_priority_fee makes
\* the total priority fee (the amount used before plus the amount returned)
\* an exact multiple of the total gas used.
C27_ExactMultiple ==
    (op = "finalize_priority_fee" /\ err = "Ok")
        => hist.priority_fee_used % hist.total_gas_used = 0

-----------------------------------------------------------------------------
(* The flag of a queued external call, in the on-chain build. *)

\* C29 as stated: on the host a queued external call with the
\* emulated-locally flag set is refused and records no action.
C29_Original ==
    \A pubkey \in ExternalKeys, is_writable \in BOOLEAN :
        \A r \in {queue_external_instruction(actions, pubkey, is_writable, TRUE)} :
            r.err # "Ok" /\ r.actions = actions

\* C29: on the host queue_external_instruction refuses a call whose
\* emulated-locally flag is false, with UnavalableExternalSolanaCall and no
\* action recorded; a call with the flag true appends one action, so every
\* external call on the action list has the flag set.
C29_HostRefusesNotEmulated ==
    /\ [](/\ \A pubkey \in ExternalKeys, is_writable \in BOOLEAN :
              /\ \A r \in {queue_external_instruction(actions, pubkey,
                                                      is_writable, FALSE)} :
                    r.err = "UnavalableExternalSolanaCall" /\ r.actions = actions
              /\ \A r \in {queue_external_instruction(actions, pubkey,
                                                      is_writable, TRUE)} :
                    /\ r.err = "Ok"
                    /\ r.actions = Append(actions,
                           ExternalInstruction(pubkey, is_writable, TRUE))
          /\ \A i \in 1..Len(actions) :
              actions[i].kind = "ExternalInstruction"
                  => actions[i].emulated_internally)
    /\ [][op' = "queue_external_instruction" =>
            IF err' = "Ok"
            THEN /\ Len(actions') = Len(actions) + 1
                 /\ Front(actions') = actions
                 /\ Last(actions').kind = "ExternalInstruction"
                 /\ Last(actions').emulated_internally
            ELSE /\ err' = "UnavalableExternalSolanaCall"
                 /\ actions' = actions]_vars

\* A call that is not emulated internally has been refused after one that
\* is emulated internally was recorded.
C29_Witness ==
    /\ op = "queue_external_instruction"
    /\ err = "UnavalableExternalSolanaCall"
    /\ \E i \in 1..Len(actions) : actions[i].kind = "ExternalInstruction"

-----------------------------------------------------------------------------
(* The weights of the record across a restart. *)

\* The weights one execution of the given number of steps adds: execute
\* touches the account it works on once per call that runs a step.
FreshWeights(steps) ==
    IF steps > 0 THEN touch_account(NoTouched, 1, 1) ELSE NoTouched

\* C28: after a continue that starts the execution afresh, the touched
\* account counters of the record hold the weights of the fresh execution
\* only: the weights counted before the restart are gone.
C28_RestartResetsTouched ==
    [][(op' = "continue" /\ hist'.reset)
       => touched_accounts' = FreshWeights(steps_executed')]_vars

-----------------------------------------------------------------------------
(* The begin step. *)

\* C30: a begin that succeeds has incremented the revision and the nonce of
\* the origin, burnt gas_limit tokens from it and allocated both blobs, and
\* has run no step: the record is active with steps_executed 0, no exit
\* status, nothing applied and nothing refunded.  A begin whose transaction
\* fails validation against the origin returns an error and has incremented,
\* burnt and allocated nothing.
C30_BeginRunsNoStep ==
    /\ [][op' = "begin"
          => /\ read_holder(tag') = "Active"
             /\ steps_executed' = 0
             /\ evm_pc' = 0
             /\ exit_status' = "None"
             /\ actions' = <<>>
             /\ evm_offset' # 0 /\ executor_state_offset' # 0
             /\ origin_nonce' = origin_nonce + 1
             /\ hist'.origin_revision = hist.origin_revision + 1
             /\ origin_balance' = origin_balance - trx'.gas_limit * trx'.gas_price
             /\ applied' = applied
             /\ hist'.refunds = hist.refunds
             /\ hist'.results = "None"]_vars
    /\ [](trx.nonce # origin_nonce
          => \A owner_ok \in BOOLEAN, trx_ok \in BOOLEAN :
                \A s \in {begin_step(owner_ok, trx_ok, 0, 0, "None")} :
                    /\ s.err # "Ok"
                    /\ s.origin_nonce = origin_nonce
                    /\ s.origin_revision = hist.origin_revision
                    /\ s.origin_balance = origin_balance
                    /\ s.heap = Pointed)

\* A begin has burnt tokens of the origin.
C30_Witness ==
    /\ op = "begin"
    /\ read_holder(tag) = "Active"
    /\ trx.gas_price > 0
    /\ origin_nonce = 1
    /\ hist.origin_revision = 1

-----------------------------------------------------------------------------
(* C31: a consume_gas call whose token cost is not zero fails with         *)
(* OperatorBalanceMissing when no operator balance is supplied and with    *)
(* OperatorBalanceInvalidChainId when the supplied balance is of another   *)
(* chain than the transaction's; in both cases no operator balance         *)
(* changes.                                                                *)
C31_ReceiverValidated ==
    \A amount \in 0..MaxAmount, receiver \in Receivers :
        \A u \in {use_gas(trx, gas_used, amount)} :
        \A r \in {consume_gas(trx, gas_used, amount, receiver, operator_balance)} :
            (u.err = "Ok" /\ u.tokens # 0)
            => /\ receiver = "None"
                  => /\ r.err = "OperatorBalanceMissing"
                     /\ r.balances = operator_balance
               /\ (receiver # "None" /\ receiver # trx_chain_id(trx))
                  => /\ r.err = "OperatorBalanceInvalidChainId"
                     /\ r.balances = operator_balance
               /\ r.err \in {"OperatorBalanceMissing", "OperatorBalanceInvalidChainId"}
                  => receiver # trx_chain_id(trx)

\* A call with a token cost was refused for the chain of its receiver after
\* an earlier call had minted tokens.
C31_Witness ==
    /\ op = "consume_gas"
    /\ err = "OperatorBalanceInvalidChainId"
    /\ arg > 0
    /\ \E c \in ChainIds : operator_balance[c] > 0

-----------------------------------------------------------------------------
(* C32: a consume_gas call rejected for a missing or chain-mismatched      *)
(* operator balance leaves the record's cumulative gas_used as it was      *)
(* before the call.                                                        *)
C32_RejectedKeepsGasUsed ==
    [][(op' = "consume_gas"
        /\ err' \in {"OperatorBalanceMissing", "OperatorBalanceInvalidChainId"})
       => gas_used' = gas_used]_vars

-----------------------------------------------------------------------------
(* SpecScheduled: the end of a transaction that may be a scheduled one:    *)
(* the finalizing step (instruction_internals.rs finalize) and the         *)
(* scheduled-finish instruction (scheduled_transaction_finish.rs).  The    *)
(* touched-account weights, the step counter and the priority fee are left *)
(* out: the transactions carry none.  A call that fails aborts the host    *)
(* transaction: it leaves the state as it was and shows its error.         *)

\* The tree accounts a caller can supply.
TreeKeys == {"tree", "stranger_tree"}
\* gasometer::SCHEDULED_FINISH_COST, scaled down.
SCHEDULED_FINISH_COST == 1

\* The record, its executor state and the balances, as one call sees them.
Sched ==
    [tag |-> tag, trx |-> trx, gas_used |-> gas_used,
     exit_status |-> exit_status, origin_balance |-> origin_balance,
     operator_balance |-> operator_balance, scheduled |-> hist.scheduled,
     tree_account |-> hist.tree_account, tree_balance |-> hist.tree_balance,
     err |-> "Ok"]

\* Transaction::is_scheduled_tx
is_scheduled_tx(s) == s.scheduled

\* StateAccount::tree_account: the tree account recorded at the start of a
\* scheduled transaction.
tree_account(s) == s.tree_account

\* scheduled_transaction_finish.rs validate with a slip: the exit status is
\* not looked for.
validate_any_status(s, actual_tree_pubkey) ==
    IF ~is_scheduled_tx(s) THEN "NotScheduledTransaction"
    ELSE IF tree_account(s) # actual_tree_pubkey
    THEN "ScheduledTxInvalidTreeAccount"
    ELSE "Ok"

\* scheduled_transaction_finish.rs validate: the transaction is a scheduled
\* one, the tree account is the recorded one, and the executor state holds
\* an exit status (deconstruct gives results).
validate(s, actual_tree_pubkey) ==
    IF ~is_scheduled_tx(s) THEN "NotScheduledTransaction"
    ELSE IF tree_account(s) # actual_tree_pubkey
    THEN "ScheduledTxInvalidTreeAccount"
    ELSE IF s.exit_status = "None" THEN "ScheduledTxNoExitStatus"
    ELSE "Ok"

\* StateAccount::materialize_unused_gas: the unused gas is used up and its
\* token amount returned.
materialize_unused_gas(t, used) == use_gas(t, used, gas_available(t, used))

\* OperatorBalanceAccount::validate_transaction: the operator balance is of
\* the transaction's chain.
validate_transaction(receiver, t) ==
    IF receiver = trx_chain_id(t) THEN "Ok" ELSE "OperatorBalanceInvalidChainId"

\* scheduled_transaction_finish.rs process on the tree account and the
\* operator balance supplied: restore, validate, the cost of the
\* instruction charged (its error ignored), the unused gas minted to the
\* tree account, the record closed (finish_scheduled_tx).
process(s, actual_tree_pubkey, receiver) ==
    IF from_account(s.tag) # "Ok" THEN Fail(s, from_account(s.tag))
    ELSE IF validate_transaction(receiver, s.trx) # "Ok"
    THEN Fail(s, validate_transaction(receiver, s.trx))
    ELSE IF validate(s, actual_tree_pubkey) # "Ok"
    THEN Fail(s, validate(s, actual_tree_pubkey))
    ELSE
    LET c == consume_gas(s.trx, s.gas_used, SCHEDULED_FINISH_COST, receiver,
                         s.operator_balance)
        s1 == [s EXCEPT !.gas_used = c.gas_used, !.operator_balance = c.balances]
        m == materialize_unused_gas(s1.trx, s1.gas_used)
        s2 == [s1 EXCEPT !.gas_used = m.gas_used]
    IN  IF m.err # "Ok" THEN Fail(s2, m.err)
        ELSE LET r == mint(s2.tree_balance, m.tokens) IN
             IF r.err # "Ok" THEN Fail(s2, r.err)
             ELSE [s2 EXCEPT !.tree_balance = r.balance,
                             !.tag = TAG_STATE_FINALIZED]

\* instruction_internals.rs finalize, from the charge of the step on:
\* consume_gas, then with a status the refund to the origin unless the
\* transaction is a scheduled one, and StateAccount::finalize.
instruction_internals_finalize(s, status, used_gas, receiver) ==
    LET c == consume_gas(s.trx, s.gas_used, used_gas, receiver, s.operator_balance)
        s1 == [s EXCEPT !.gas_used = c.gas_used, !.operator_balance = c.balances]
    IN  IF c.err # "Ok" THEN Fail(s1, c.err)
        ELSE IF ~status THEN s1
        ELSE IF is_scheduled_tx(s1)
        THEN [s1 EXCEPT !.tag = TAG_STATE_FINALIZED]
        ELSE LET r == refund_unused_gas(s1.trx, s1.gas_used, s1.origin_balance,
                          [chain_id |-> trx_chain_id(s1.trx),
                           address |-> trx_origin])
                 s2 == [s1 EXCEPT !.gas_used = r.gas_used,
                                  !.origin_balance = r.balance]
             IN  IF r.err # "Ok" THEN Fail(s2, r.err)
                 ELSE [s2 EXCEPT !.tag = TAG_STATE_FINALIZED]

\* One step on an Active record (do_continue): the interpreter runs unless
\* an exit status is stored and stores the one it reaches; the results are
\* withheld over the final-iteration cap; finalize has a status when the
\* results are there and the storage allocation is Ready.
scheduled_step(s, exits, withheld, ready, used_gas, receiver) ==
    IF from_account(s.tag) # "Ok" THEN Fail(s, from_account(s.tag))
    ELSE
    LET s1 == IF s.exit_status = "None" /\ exits
              THEN [s EXCEPT !.exit_status = "Stop"] ELSE s
        results == s1.exit_status # "None" /\ ~withheld
    IN  instruction_internals_finalize(s1, results /\ ready, used_gas, receiver)

InitScheduled ==
    /\ tag = TAG_STATE
    /\ trx \in Transactions
    /\ gas_used = 0
    /\ RecordIdle
    /\ BlobIdle
    /\ DurableIdle
    /\ CallIdle
    /\ hist \in [scheduled : {TRUE}, tree_account : {"tree"}, tree_balance : {0}]
                \cup [scheduled : {FALSE}, tree_account : {"None"},
                      tree_balance : {0}]

\* What a call leaves: its writes when it returns Ok, nothing but its error
\* when it fails.
ScheduledKeeps(name, r, a) ==
    /\ op' = name
    /\ err' = r.err
    /\ arg' = a
    /\ tag' = IF r.err = "Ok" THEN r.tag ELSE tag
    /\ gas_used' = IF r.err = "Ok" THEN r.gas_used ELSE gas_used
    /\ exit_status' = IF r.err = "Ok" THEN r.exit_status ELSE exit_status
    /\ origin_balance' = IF r.err = "Ok" THEN r.origin_balance ELSE origin_balance
    /\ operator_balance' = IF r.err = "Ok" THEN r.operator_balance
                           ELSE operator_balance
    /\ hist' = IF r.err = "Ok" THEN [hist EXCEPT !.tree_balance = r.tree_balance]
               ELSE hist
    /\ UNCHANGED <<trx, steps_executed, revisions, touched_accounts,
                   executor_state_offset, evm_offset, actions, stack, cache,
                   touched, evm_pc, accounts, origin_nonce, applied>>

ScheduledStep ==
    \E exits \in BOOLEAN, withheld \in BOOLEAN, ready \in BOOLEAN,
       used_gas \in {0, 1}, receiver \in Receivers :
        ScheduledKeeps("step",
            scheduled_step(Sched, exits, withheld, ready, used_gas, receiver),
            used_gas)

ScheduledFinish ==
    \E tree \in TreeKeys, receiver \in ChainIds :
        ScheduledKeeps("scheduled_finish", process(Sched, tree, receiver), tree)

NextScheduled == ScheduledStep \/ ScheduledFinish

SpecScheduled == InitScheduled /\ [][NextScheduled]_vars

-----------------------------------------------------------------------------
\* What the two calls would do in the state at hand: a step of a scheduled
\* transaction refunds nothing, and scheduled-finish is refused with
\* nothing written unless its three conditions hold.
C33_Calls ==
    /\ \A exits \in BOOLEAN, withheld \in BOOLEAN, ready \in BOOLEAN,
          used_gas \in {0, 1}, receiver \in Receivers :
          \A r \in {scheduled_step(Sched, exits, withheld, ready, used_gas,
                                   receiver)} :
              hist.scheduled
              => /\ r.origin_balance = origin_balance
                 /\ r.tree_balance = hist.tree_balance
    /\ \A tree \in TreeKeys, receiver \in ChainIds :
          \A r \in {process(Sched, tree, receiver)} :
              ~(hist.scheduled /\ tree = hist.tree_account
                /\ exit_status # "None")
              => /\ r.err # "Ok"
                 /\ r.origin_balance = origin_balance
                 /\ r.tree_balance = hist.tree_balance
                 /\ r.gas_used = gas_used
                 /\ r.tag = tag

(* C33: the finalizing step of a scheduled transaction refunds nothing to  *)
(* the origin; the unused gas of a scheduled transaction is refunded by    *)
(* the scheduled-finish instruction only; and that instruction fails,      *)
(* having refunded nothing and with the record still open, unless the      *)
(* transaction is a scheduled one, the tree account supplied is the        *)
(* recorded one and the executor state holds an exit status.               *)
C33_ScheduledRefund ==
    /\ []C33_Calls
    /\ [][(hist.scheduled /\ (hist'.tree_balance # hist.tree_balance
                              \/ origin_balance' # origin_balance))
           => /\ op' = "scheduled_finish"
              /\ err' = "Ok"
              /\ origin_balance' = origin_balance]_vars

\* A scheduled transaction whose exit status was stored by a step that
\* refunded nothing, and whose unused gas the scheduled-finish instruction
\* minted to the tree account.
C33_Witness ==
    /\ hist.scheduled
    /\ op = "scheduled_finish"
    /\ err = "Ok"
    /\ exit_status # "None"
    /\ hist.tree_balance > 0
    /\ origin_balance = 0
    /\ tag = TAG_STATE_FINALIZED

-----------------------------------------------------------------------------
(* SpecTouch: the touches of the steps of one execution, without restart:  *)
(* the per-step map of ExecutorStateData filled by the touch_* calls and   *)
(* merged into the record at the end of a step (deconstruct, then          *)
(* update_touched_accounts).  hist counts the touches: of the step under   *)
(* way and of the steps that ended.  A step that fails is aborted by the   *)
(* host: the record and the map are as they were when it started.          *)

PanicUnwrap == "panic: called Option::unwrap() on a None value"

\* ExecutorState::touch_account with the width of the counter:
\* cur_counter.checked_add(count).unwrap().
touch_account_u64(t, pubkey, count) ==
    IF t[pubkey] + count > MaxWeight
    THEN [err |-> PanicUnwrap, touched |-> t]
    ELSE [err |-> "Ok", touched |-> touch_account(t, pubkey, count)]

\* ExecutorState::touch_balance, touch_balance_indirect, touch_contract,
\* touch_storage and touch_solana on the account pubkey their arguments
\* name.
touch_balance(t, pubkey) == touch_account_u64(t, pubkey, 2)
touch_balance_indirect(t, pubkey) == touch_account_u64(t, pubkey, 1)
touch_contract(t, pubkey) == touch_account_u64(t, pubkey, 2)
touch_storage(t, pubkey) == touch_account_u64(t, pubkey, 2)
touch_solana(t, pubkey) == touch_account_u64(t, pubkey, 2)

NoTouches == [indirect |-> NoTouched, other |-> NoTouched]

InitTouch ==
    /\ tag = TAG_STATE
    /\ trx \in [gas_limit : {1}, gas_price : {0}, chain_id : {"None"}, nonce : {0}]
    /\ gas_used = 0
    /\ steps_executed = 0
    /\ revisions = <<>>
    /\ touched_accounts = NoTouched
    /\ executor_state_offset = 0
    /\ evm_offset = 0
    /\ actions = <<>>
    /\ stack = <<>>
    /\ exit_status = "None"
    /\ cache = NoCache
    /\ touched = NoTouched
    /\ evm_pc = 0
    /\ DurableIdle
    /\ CallIdle
    /\ hist = [step |-> NoTouches, ended |-> NoTouches]

\* A touch of the step under way: counted when it returns, and the step
\* aborted when it panics.
TouchKeeps(name, r, pubkey, kind) ==
    /\ op' = name
    /\ err' = r.err
    /\ arg' = pubkey
    /\ touched' = IF r.err = "Ok" THEN r.touched ELSE NoTouched
    /\ hist' = IF r.err = "Ok"
               THEN [hist EXCEPT !.step[kind][pubkey] = @ + 1]
               ELSE [hist EXCEPT !.step = NoTouches]
    /\ UNCHANGED <<recordVars, actions, stack, exit_status, cache, evm_pc,
                   durableVars>>

TouchBalance ==
    \E k \in Keys : TouchKeeps("touch_balance", touch_balance(touched, k), k, "other")
TouchBalanceIndirect ==
    \E k \in Keys : TouchKeeps("touch_balance_indirect",
                               touch_balance_indirect(touched, k), k, "indirect")
TouchContract ==
    \E k \in Keys : TouchKeeps("touch_contract", touch_contract(touched, k), k, "other")
TouchStorage ==
    \E k \in Keys : TouchKeeps("touch_storage", touch_storage(touched, k), k, "other")
TouchSolana ==
    \E k \in Keys : TouchKeeps("touch_solana", touch_solana(touched, k), k, "other")

\* The end of a step: deconstruct moves the map out and leaves an empty
\* one, finalize merges it into the record.
EndStep ==
    LET r == update_touched_accounts(touched_accounts, touched) IN
    /\ op' = "end_step"
    /\ err' = r.err
    /\ arg' = 0
    /\ touched' = NoTouched
    /\ touched_accounts' = IF r.err = "Ok" THEN r.touched_accounts
                           ELSE touched_accounts
    /\ hist' = IF r.err = "Ok"
               THEN [step |-> NoTouches,
                     ended |-> [kind \in {"indirect", "other"} |->
                                  [k \in Keys |-> hist.ended[kind][k]
                                                  + hist.step[kind][k]]]]
               ELSE [hist EXCEPT !.step = NoTouches]
    /\ UNCHANGED <<tag, trx, gas_used, steps_executed, revisions,
                   executor_state_offset, evm_offset, actions, stack,
                   exit_status, cache, evm_pc, durableVars>>

NextTouch ==
    \/ TouchBalance
    \/ TouchBalanceIndirect
    \/ TouchContract
    \/ TouchStorage
    \/ TouchSolana
    \/ EndStep

SpecTouch == InitTouch /\ [][NextTouch]_vars

\* The weight of the touches counted in c for account k.
WeightOf(c, k) == c.indirect[k] + 2 * c.other[k]

\* The record holds the weights of the touches of the steps that ended, the
\* map those of the step under way, empty when a step has ended; and no
\* weight of the record decreases.
C34_Additive ==
    /\ [](\A k \in Keys : /\ touched_accounts[k] = WeightOf(hist.ended, k)
                          /\ touched[k] = WeightOf(hist.step, k))
    /\ [](op = "end_step" => touched = NoTouched)
    /\ [][\A k \in Keys : touched_accounts'[k] >= touched_accounts[k]]_vars

\* The call under way makes a sum of weights exceed the width of a counter.
Overflows ==
    \/ /\ op' = "end_step"
       /\ \E k \in Keys : touched_accounts[k] + touched[k] > MaxWeight
    \/ /\ op' = "touch_balance_indirect"
       /\ touched[arg'] + 1 > MaxWeight
    \/ /\ op' \in {"touch_balance", "touch_contract", "touch_storage",
                   "touch_solana"}
       /\ touched[arg'] + 2 > MaxWeight

(* C34 as stated: the per-step map is merged additively into the record at *)
(* the end of every step and then emptied; the record's weight of an       *)
(* account is the sum of the weights of all the touches of the steps (1    *)
(* for an indirect balance touch, 2 for any other), never decreases, and   *)
(* an overflow of the sum fails the step with IntegerOverflow.             *)
C34_Original ==
    /\ C34_Additive
    /\ [][Overflows => err' = "IntegerOverflow"]_vars

(* C34: the per-step map is merged additively into the record at the end   *)
(* of every step and then emptied; the record's weight of an account is    *)
(* the sum of the weights of all the touches of the steps that ended (1    *)
(* for an indirect balance touch, 2 for any other) and never decreases; an *)
(* overflow in the merge fails the step with IntegerOverflow, an overflow  *)
(* of the weights of one step panics in touch_account; either way the step *)
(* is aborted.                                                             *)
C34_MergedAdditively ==
    /\ C34_Additive
    /\ [][Overflows
          => /\ err' = IF op' = "end_step" THEN "IntegerOverflow" ELSE PanicUnwrap
             /\ touched_accounts' = touched_accounts]_vars
    /\ [][err' \in {"IntegerOverflow", PanicUnwrap} => Overflows]_vars

\* Touches of both weights were merged into the record, and the touches of
\* a later step overflowed in the map.
C34_Witness ==
    /\ op = "touch_storage"
    /\ err = PanicUnwrap
    /\ \E k \in Keys : /\ hist.ended.indirect[k] > 0
                       /\ hist.ended.other[k] > 0
                       /\ touched_accounts[k] = 3

-----------------------------------------------------------------------------
(* SpecBudget: get_compute_budget_priority_fee over the instructions of a  *)
(* host transaction, longer than the window the function looks at.  The    *)
(* instructions are put into the transaction one by one, then the function *)
(* is called; hist holds the instructions and what the call returned.      *)

\* The most instructions a host transaction of this specification holds.
MaxHostInstructions == 6

\* The instructions of a host transaction: of another program, of the
\* Compute Budget program with a tag the function does not read, a limit
\* and a price, well-formed or of the wrong width.
HostInstructions ==
    {Instruction("other", "none", 0),
     Instruction(COMPUTE_BUDGET_ADDRESS, "RequestHeapFrame", 0),
     Instruction(COMPUTE_BUDGET_ADDRESS, COMPUTE_UNIT_LIMIT_TAG, 3),
     Instruction(COMPUTE_BUDGET_ADDRESS, COMPUTE_UNIT_LIMIT_TAG, Malformed),
     Instruction(COMPUTE_BUDGET_ADDRESS, COMPUTE_UNIT_PRICE_TAG, 1),
     Instruction(COMPUTE_BUDGET_ADDRESS, COMPUTE_UNIT_PRICE_TAG, Malformed)}

NoBudget == [err |-> "none", cu_limit |-> None, cu_price |-> None, reads |-> 0]

InitBudget ==
    /\ tag = TAG_STATE
    /\ trx \in [gas_limit : {1}, gas_price : {0}, chain_id : {"None"}, nonce : {0}]
    /\ gas_used = 0
    /\ RecordIdle
    /\ BlobIdle
    /\ DurableIdle
    /\ CallIdle
    /\ hist = [ixns |-> <<>>, found |-> NoBudget]

\* The host transaction gets one more instruction.
AddInstruction ==
    /\ op \in {"init", "instruction"}
    /\ Len(hist.ixns) < MaxHostInstructions
    /\ \E ixn \in HostInstructions :
           hist' = [hist EXCEPT !.ixns = Append(@, ixn)]
    /\ op' = "instruction"
    /\ UNCHANGED <<recordVars, blobVars, durableVars, err, arg>>

GetComputeBudgetPriorityFee ==
    /\ op \in {"init", "instruction"}
    /\ hist' = [hist EXCEPT !.found = get_compute_budget_priority_fee(hist.ixns)]
    /\ op' = "get_compute_budget_priority_fee"
    /\ err' = hist'.found.err
    /\ arg' = Len(hist.ixns)
    /\ UNCHANGED <<recordVars, blobVars, durableVars>>

NextBudget == AddInstruction \/ GetComputeBudgetPriorityFee

SpecBudget == InitBudget /\ [][NextBudget]_vars

\* The instructions at indices 0 .. max_idx - 1.
Window(ixns) == SubSeq(ixns, 1, Min(Len(ixns), max_idx))
\* The window holds an instruction of the Compute Budget program of tag t.
Holds(ixns, t) ==
    \E i \in 1..Len(Window(ixns)) :
        /\ ixns[i].program_id = COMPUTE_BUDGET_ADDRESS
        /\ ixns[i].tag = t
\* The window holds a limit or price instruction of the wrong width.
HoldsMalformed(ixns) ==
    \E i \in 1..Len(Window(ixns)) :
        /\ ixns[i].program_id = COMPUTE_BUDGET_ADDRESS
        /\ ixns[i].tag \in {COMPUTE_UNIT_LIMIT_TAG, COMPUTE_UNIT_PRICE_TAG}
        /\ ixns[i].value = Malformed

\* The call returned, having read at most max_idx instructions and none
\* after the first missing index, with what the window alone gives.
C35_Window ==
    op = "get_compute_budget_priority_fee"
    => /\ hist.found.err \in {"Ok", "PriorityFeeNotSpecified",
                              "PriorityFeeParsingError"}
       /\ hist.found.reads <= max_idx
       /\ hist.found.reads <= Len(hist.ixns) + 1
       /\ hist.found = get_compute_budget_priority_fee(Window(hist.ixns))
       /\ (/\ Holds(hist.ixns, COMPUTE_UNIT_PRICE_TAG)
           /\ ~Holds(hist.ixns, COMPUTE_UNIT_LIMIT_TAG)
           /\ ~HoldsMalformed(hist.ixns))
          => /\ hist.found.err = "Ok"
             /\ hist.found.cu_limit = DEFAULT_COMPUTE_UNIT_LIMIT
             /\ hist.found.cu_price # None

(* C35 as stated: the recovery of the compute-unit price and limit reads   *)
(* at most 5 sibling instructions, stops at the first missing index and    *)
(* returns; it fails with PriorityFeeNotSpecified when the window holds no *)
(* price instruction, and takes the default limit when only the limit is   *)
(* missing.                                                                *)
C35_Original ==
    /\ C35_Window
    /\ (op = "get_compute_budget_priority_fee"
        /\ ~Holds(hist.ixns, COMPUTE_UNIT_PRICE_TAG))
       => hist.found.err = "PriorityFeeNotSpecified"

(* C35: the recovery of the compute-unit price and limit reads at most 5   *)
(* sibling instructions (indices 0..4), stops at the first missing index   *)
(* and returns; when the window holds no price instruction it fails, with  *)
(* PriorityFeeNotSpecified unless a limit instruction of the wrong width   *)
(* in the window has failed it with PriorityFeeParsingError; it returns    *)
(* PriorityFeeNotSpecified for no other input; and it takes the default    *)
(* limit when only the limit is missing.                                   *)
C35_BoundedLookahead ==
    /\ C35_Window
    /\ op = "get_compute_budget_priority_fee"
       => /\ ~Holds(hist.ixns, COMPUTE_UNIT_PRICE_TAG)
             => hist.found.err = IF HoldsMalformed(hist.ixns)
                                 THEN "PriorityFeeParsingError"
                                 ELSE "PriorityFeeNotSpecified"
          /\ hist.found.err = "PriorityFeeNotSpecified"
             => ~Holds(hist.ixns, COMPUTE_UNIT_PRICE_TAG)

\* A price instruction at index 5, behind five instructions that hold no
\* price: the call read five instructions and found no price.
C35_Witness ==
    /\ op = "get_compute_budget_priority_fee"
    /\ Len(hist.ixns) > max_idx
    /\ hist.ixns[max_idx + 1].tag = COMPUTE_UNIT_PRICE_TAG
    /\ hist.ixns[max_idx + 1].value = 1
    /\ hist.found.reads = max_idx
    /\ hist.found.err = "PriorityFeeNotSpecified"

-----------------------------------------------------------------------------
\* A continue instruction takes effect on an Active record whose executor
\* state holds an exit status.
ContinueAfterExit ==
    /\ tag = TAG_STATE
    /\ exit_status # "None"
    /\ op' = "continue"

(* C36 as stated: once an exit status is stored in the executor state, a   *)
(* later continue runs no virtual step, adds 0 to steps_executed and       *)
(* reaches finalize with the stored exit status and the action list as it  *)
(* was.                                                                    *)
C36_Original ==
    [][ContinueAfterExit
       => /\ StepsOfCall = 0
          /\ steps_executed' = steps_executed
          /\ hist'.results = "Some"
          /\ exit_status' = exit_status
          /\ actions' = actions]_vars

(* C36: once an exit status is stored in the executor state, a later       *)
(* continue that does not restart runs no virtual step, adds 0 to          *)
(* steps_executed and reaches finalize with the stored exit status and the *)
(* action list as it was: the record is finalized with these actions       *)
(* applied when the storage allocation is Ready, and stays Active with the *)
(* exit status stored when it is not.  A continue that restarts (forced,   *)
(* or after a touched account was mutated) rebuilds the executor state     *)
(* without the exit status and runs the program again from its start.      *)
C36_NoStepsAfterExit ==
    /\ [][(ContinueAfterExit /\ ~hist'.reset)
          => /\ StepsOfCall = 0
             /\ evm_pc' = evm_pc
             /\ steps_executed' = steps_executed
             /\ hist'.results = "Some"
             /\ exit_status' = exit_status
             /\ actions' = actions
             /\ hist'.allocate = "Ready"
                  => /\ read_holder(tag') = "Finalized"
                     /\ applied' = applied + 1
             /\ hist'.allocate # "Ready"
                  => /\ read_holder(tag') = "Active"
                     /\ applied' = applied]_vars
    /\ [][(ContinueAfterExit /\ hist'.reset)
          => /\ StepsOfCall = Min(arg', ProgramLen)
             /\ steps_executed' = StepsOfCall
             /\ Len(actions') = StepsOfCall]_vars

\* An exit reached in a long iteration was withheld, and the next continue,
\* without restart, finalized the record with the steps and the actions it
\* found.
C36_Witness ==
    /\ op = "continue"
    /\ ~hist.reset
    /\ hist.retried = FALSE
    /\ read_holder(tag) = "Finalized"
    /\ exit_status = "Stop"
    /\ evm_pc = ProgramLen
    /\ steps_executed = ProgramLen
    /\ Len(actions) = ProgramLen
    /\ applied = 1

-----------------------------------------------------------------------------
\* The tokens burned from the origin at begin for the gas limit.
GasLimitInTokens == trx.gas_limit * trx.gas_price

\* The tokens an Active record still holds for the gas not used yet.
HeldTokens(t, used) == IF t = TAG_STATE THEN gas_available(trx, used) * trx.gas_price
                       ELSE 0

\* The tokens of the origin, of the operators and of the record.
TotalTokens(t, used, origin, balances) ==
    origin + OperatorTokens(balances) + HeldTokens(t, used)

(* C37: for a transaction without priority fee that is not scheduled,      *)
(* begin burns gas_limit * gas_price tokens from the origin; no step       *)
(* creates or destroys tokens; and when the record becomes Finalized the   *)
(* tokens minted to the operator balances over all the steps plus the      *)
(* tokens refunded to the origin are the tokens burned, gas_used is        *)
(* gas_limit and gas_available is 0.                                       *)
C37_TokensConserved ==
    /\ [][op' = "begin" /\ read_holder(tag) # "Active"
          => origin_balance' = origin_balance - GasLimitInTokens]_vars
    /\ [][TotalTokens(tag', gas_used', origin_balance', operator_balance')
          = TotalTokens(tag, gas_used, origin_balance, operator_balance)]_vars
    /\ [][(read_holder(tag) = "Active" /\ read_holder(tag') = "Finalized")
          => /\ OperatorTokens(operator_balance')
                + (origin_balance' - origin_balance) = GasLimitInTokens
             /\ gas_used' = trx.gas_limit
             /\ gas_available(trx, gas_used') = 0]_vars

\* A transaction with a gas price was finalized after steps that minted to
\* an operator, with tokens left to refund.
C37_Witness ==
    /\ read_holder(tag) = "Finalized"
    /\ trx.gas_price > 0
    /\ OperatorTokens(operator_balance) > 1
    /\ OperatorTokens(operator_balance) < GasLimitInTokens
    /\ origin_balance + OperatorTokens(operator_balance) = MaxU256
    /\ steps_executed = ProgramLen

-----------------------------------------------------------------------------
(* C38: over the life of one transaction (begin, continues, restarts and   *)
(* the finalizing step) the nonce of the origin is incremented once and    *)
(* the tokens of the gas limit are burned from the origin once, both by    *)
(* begin: the nonce of the origin is that of the transaction before begin  *)
(* and one more ever after; no continue, restarting or not, changes the    *)
(* nonce or takes tokens from the origin.                                  *)
C38_BeginOnce ==
    /\ [](origin_nonce = IF read_holder(tag) \in {"Active", "Finalized"}
                         THEN trx.nonce + 1 ELSE trx.nonce)
    /\ [][(origin_nonce' # origin_nonce \/ origin_balance' < origin_balance)
          => /\ op' = "begin"
             /\ read_holder(tag) = "Holder"
             /\ origin_nonce' = origin_nonce + 1
             /\ origin_balance' = origin_balance - GasLimitInTokens]_vars
    /\ [][op' = "continue"
          => /\ origin_nonce' = origin_nonce
             /\ origin_balance' - origin_balance
                = IF read_holder(tag') = "Finalized"
                  THEN gas_available(trx, gas_used) * trx.gas_price
                       - (OperatorTokens(operator_balance')
                          - OperatorTokens(operator_balance))
                  ELSE 0]_vars

\* A continue restarted a transaction with a gas price after a touched
\* account had changed: the program runs again, and the origin has the
\* nonce and the tokens begin left it.
C38_Witness ==
    /\ read_holder(tag) = "Active"
    /\ op = "continue"
    /\ hist.reset
    /\ hist.status = "NeedRestart"
    /\ trx.gas_price > 0
    /\ gas_used > 0
    /\ evm_pc > 0
    /\ origin_nonce = trx.nonce + 1
    /\ origin_balance = MaxU256 - GasLimitInTokens

-----------------------------------------------------------------------------
(* SpecCalls: the executor state under the calls of the interpreter that   *)
(* do_continue runs.  The interpreter records actions inside a call only:  *)
(* it enters a call with snapshot, the outermost one included, leaves it   *)
(* with commit_snapshot or revert_snapshot, and returns the exit status    *)
(* when the outermost call is left, which do_continue stores with          *)
(* set_exit_status; once a status is stored it is not run again.  A        *)
(* restart builds the executor state anew.  A panic aborts the step: it    *)
(* leaves the state as it was and shows in err.                            *)

\* ExecutorState::set_exit_status on the stack stk.
set_exit_status(stk, status) ==
    IF stk # <<>>
    THEN [err |-> PanicAssert, exit_status |-> "None"]
    ELSE [err |-> "Ok", exit_status |-> status]

InitCalls ==
    /\ tag = TAG_STATE
    /\ trx = [gas_limit |-> 1, gas_price |-> 0, chain_id |-> "None", nonce |-> 0]
    /\ gas_used = 0
    /\ RecordIdle
    /\ actions = <<>>
    /\ stack = <<>>
    /\ exit_status = "None"
    /\ cache = NoCache
    /\ touched = NoTouched
    /\ evm_pc = 0
    /\ DurableIdle
    /\ CallIdle
    /\ hist = [dropped |-> 0]

\* The interpreter enters a call.
CallsEnter ==
    /\ exit_status = "None"
    /\ Len(stack) < MaxDepth
    /\ stack' = snapshot(actions, stack)
    /\ op' = "snapshot"
    /\ err' = "Ok"
    /\ UNCHANGED <<recordVars, actions, exit_status, cache, touched, evm_pc,
                   durableVars, arg, hist>>

\* The call under way writes a storage slot.
CallsRecord ==
    /\ exit_status = "None"
    /\ stack # <<>>
    /\ Len(actions) < MaxActions
    /\ \E index \in Keys :
           actions' = Append(actions, EvmSetStorage(index, 1))
    /\ op' = "set_storage"
    /\ err' = "Ok"
    /\ UNCHANGED <<recordVars, stack, exit_status, cache, touched, evm_pc,
                   durableVars, arg, hist>>

\* What the leaving of a call leaves: the log and the stack of r, and the
\* exit status status stored when the call was the outermost one; nothing
\* but the error when a method panicked.
CallsLeft(name, r, status) ==
    LET e == IF r.stack = <<>> THEN set_exit_status(r.stack, status)
             ELSE [err |-> "Ok", exit_status |-> exit_status]
        failed == IF r.err # "Ok" THEN r.err ELSE e.err
    IN  /\ op' = name
        /\ err' = failed
        /\ actions' = IF failed = "Ok" THEN r.actions ELSE actions
        /\ stack' = IF failed = "Ok" THEN r.stack ELSE stack
        /\ cache' = IF failed = "Ok" THEN r.cache ELSE cache
        /\ exit_status' = IF failed = "Ok" THEN e.exit_status ELSE exit_status
        /\ hist' = IF failed = "Ok"
                   THEN [dropped |-> Len(actions) - Len(r.actions)] ELSE hist
        /\ UNCHANGED <<recordVars, touched, evm_pc, durableVars, arg>>

\* The call under way succeeds.
CallsCommit ==
    /\ exit_status = "None"
    /\ stack # <<>>
    /\ \E c \in {commit_snapshot(stack)} :
           CallsLeft("commit_snapshot",
                     [err |-> c.err, actions |-> actions, stack |-> c.stack,
                      cache |-> cache],
                     "Stop")

\* The call under way fails.
CallsRevert ==
    /\ exit_status = "None"
    /\ stack # <<>>
    /\ CallsLeft("revert_snapshot", revert_snapshot(actions, stack, cache),
                 "Revert")

\* A continue restarts the execution: ExecutorStateData::new.
CallsRestart ==
    /\ actions' = <<>>
    /\ stack' = <<>>
    /\ exit_status' = "None"
    /\ cache' = NoCache
    /\ op' = "restart"
    /\ err' = "Ok"
    /\ hist' = [dropped |-> 0]
    /\ UNCHANGED <<recordVars, touched, evm_pc, durableVars, arg>>

NextCalls ==
    \/ CallsEnter
    \/ CallsRecord
    \/ CallsCommit
    \/ CallsRevert
    \/ CallsRestart

SpecCalls == InitCalls /\ [][NextCalls]_vars

-----------------------------------------------------------------------------
(* C40: after any sequence of record, snapshot, commit, revert and         *)
(* external_account calls the offset of the processed actions kept by the  *)
(* external-account cache is at most the length of the action list; a      *)
(* revert that returns leaves the cache without any account view and the   *)
(* offset at 0, so no view kept reflects an external instruction that was  *)
(* rolled back; and a view is cached only with every action of the list    *)
(* processed.                                                              *)
C40_OffsetWithinLog ==
    /\ [](cache.actions_offset <= Len(actions))
    /\ [][(op' = "revert_snapshot" /\ err' # PanicCallStack)
          => /\ cache'.accounts = {}
             /\ cache'.actions_offset = 0]_vars
    /\ [][cache'.accounts # cache.accounts /\ cache'.accounts # {}
          => /\ op' = "external_account"
             /\ cache'.actions_offset = Len(actions')]_vars

\* A queued external instruction was processed into a cached view and then
\* rolled back with everything recorded: the cache is empty again.
C40_Witness ==
    /\ op = "revert_snapshot"
    /\ err = "Ok"
    /\ hist.evicted
    /\ hist.dropped > 0
    /\ actions = <<>>
    /\ cache.accounts = {}
    /\ cache.actions_offset = 0

====
